---- MODULE Spec2Model ----
(***************************************************************************)
(* hypered: the optimisation run of hypered/interface/optimize.py driving  *)
(* hypered/optim/bayesian_optimization.py, with the evaluation / caching   *)
(* layer (_eval), the dictionary helpers of                                *)
(* hypered/interface/common/dict_utils.py and the experiment directory on  *)
(* disk.                                                                   *)
(*                                                                         *)
(* Representation.  A Python str is a sequence of one-character strings.   *)
(* A Python value is a record: PyInt(n), Dict(items), a search variable or a *)
(* device_id provider.  A dict keeps its insertion order: items is a       *)
(* sequence of [k, v] entries with pairwise different keys.  JSON text is  *)
(* a sequence of tokens.  A path is a sequence of components.              *)
(***************************************************************************)
EXTENDS Integers, Sequences, FiniteSets, TLC

(***************************************************************************)
(* Bounds of the model.                                                    *)
(***************************************************************************)
MaxCalls == 3
MaxInitialPoints == 2

(***************************************************************************)
(* Values.                                                                 *)
(***************************************************************************)
None == [kind |-> "none"]
PyInt(n) == [kind |-> "int", val |-> n]
Dict(items) == [kind |-> "dict", items |-> items]
Entry(key, value) == [k |-> key, v |-> value]
IsDict(node) == node.kind = "dict"

RangeOf(s) == {s[n] : n \in DOMAIN s}

RECURSIVE SeqSum(_)
SeqSum(s) == IF s = <<>> THEN 0 ELSE Head(s) + SeqSum(Tail(s))

RECURSIVE Flatten(_)
Flatten(ss) == IF ss = <<>> THEN <<>> ELSE Head(ss) \o Flatten(Tail(ss))

\* min(ys) of a non-empty sequence of numbers
Min(s) == CHOOSE m \in RangeOf(s) : \A n \in RangeOf(s) : m <= n

(***************************************************************************)
(* dict primitives                                                         *)
(***************************************************************************)
DictKeys(items) == {items[n].k : n \in DOMAIN items}
DictHas(items, key) == key \in DictKeys(items)
DictGet(items, key) == (CHOOSE e \in RangeOf(items) : e.k = key).v
\* d[key] = value: an existing key keeps its position, a new key goes last
DictSet(items, key, value) ==
    IF DictHas(items, key)
    THEN [n \in DOMAIN items |->
            IF items[n].k = key THEN Entry(key, value) ELSE items[n]]
    ELSE Append(items, Entry(key, value))
\* Python's == on dicts does not look at the insertion order
RECURSIVE PyEq(_, _)
PyEq(a, b) ==
    IF IsDict(a) /\ IsDict(b)
    THEN /\ DictKeys(a.items) = DictKeys(b.items)
         /\ \A key \in DictKeys(a.items) :
               PyEq(DictGet(a.items, key), DictGet(b.items, key))
    ELSE a = b

(***************************************************************************)
(* str.split(sep) and the concatenation suffix + sep + k                   *)
(***************************************************************************)
DefaultSep == "."

RECURSIVE SplitFrom(_, _, _)
SplitFrom(s, sep, cur) ==
    IF s = <<>> THEN <<cur>>
    ELSE IF Head(s) = sep THEN <<cur>> \o SplitFrom(Tail(s), sep, <<>>)
    ELSE SplitFrom(Tail(s), sep, Append(cur, Head(s)))
Split(s, sep) == SplitFrom(s, sep, <<>>)

(***************************************************************************)
(* dict_utils.unwrap_dict, wrap_dict, merge_dicts, lookup_flat             *)
(***************************************************************************)
\* unwrap_dict(dic, flat, suffix, sep); the recursive call passes no sep, so
\* the levels below the first are joined with the default separator
RECURSIVE unwrap_items(_, _, _, _)
unwrap_items(items, flat, suffix, sep) ==
    IF items = <<>> THEN flat
    ELSE LET e == Head(items)
             flat_suffix == IF suffix # <<>> THEN suffix \o <<sep>> \o e.k ELSE e.k
             flat1 == IF IsDict(e.v)
                      THEN unwrap_items(e.v.items, flat, flat_suffix, DefaultSep)
                      ELSE DictSet(flat, flat_suffix, e.v)
         IN  unwrap_items(Tail(items), flat1, suffix, sep)
unwrap_dict(dic, sep) == unwrap_items(dic.items, <<>>, <<>>, sep)

\* the walk "for k in keys[:-1]: if k not in p: p[k] = {}; p = p[k]" followed
\* by p[keys[-1]] = v.  WrapFails tells when p is not a dict on the way (the
\* item assignment or the "in" test raises TypeError)
RECURSIVE InsertPath(_, _, _)
InsertPath(node, keys, value) ==
    IF Len(keys) = 1 THEN Dict(DictSet(node.items, keys[1], value))
    ELSE LET child == IF DictHas(node.items, keys[1])
                      THEN DictGet(node.items, keys[1]) ELSE Dict(<<>>)
         IN  Dict(DictSet(node.items, keys[1],
                          InsertPath(child, Tail(keys), value)))
RECURSIVE InsertFails(_, _)
InsertFails(node, keys) ==
    IF ~IsDict(node) THEN TRUE
    ELSE IF Len(keys) = 1 THEN FALSE
    ELSE IF DictHas(node.items, keys[1])
         THEN InsertFails(DictGet(node.items, keys[1]), Tail(keys))
         ELSE FALSE
RECURSIVE wrap_items(_, _, _)
wrap_items(flat, dic, sep) ==
    IF flat = <<>> THEN dic
    ELSE LET e == Head(flat)
             keys == Split(e.k, sep)
         IN  IF InsertFails(dic, keys) THEN None
             ELSE wrap_items(Tail(flat), InsertPath(dic, keys, e.v), sep)
wrap_dict(flat, sep) == wrap_items(flat, Dict(<<>>), sep)

RECURSIVE merge_items(_, _)
merge_items(merged, arg) ==
    IF arg = <<>> THEN merged
    ELSE merge_items(DictSet(merged, Head(arg).k, Head(arg).v), Tail(arg))
\* a merge in which the base value wins over the sampled one
merge_dicts_base_first(base, arg) == merge_items(arg, base)
\* merge_dicts(base, arg): merged = base.copy(), then merged[k] = v
merge_dicts(base, arg) == merge_items(base, arg)

\* lookup_flat(dic, flat_key): None stands for the KeyError / TypeError
RECURSIVE lookup_keys(_, _)
lookup_keys(p, keys) ==
    IF keys = <<>> THEN p
    ELSE IF IsDict(p) /\ DictHas(p.items, Head(keys))
         THEN lookup_keys(DictGet(p.items, Head(keys)), Tail(keys))
         ELSE None
lookup_flat(dic, flat_key) == lookup_keys(dic, Split(flat_key, DefaultSep))

(***************************************************************************)
(* dict_utils.deserialize_json, serialize_json, hash_json                  *)
(***************************************************************************)
\* ast.literal_eval(str(data)) gives the value back when it is built from
\* dicts and numbers only; the repr of any other object is no literal
RECURSIVE IsLiteral(_)
IsLiteral(node) ==
    \/ node.kind = "int"
    \/ /\ IsDict(node)
       /\ \A n \in DOMAIN node.items : IsLiteral(node.items[n].v)

\* json.dumps: the members of an object are written in the dict's order
RECURSIVE dumps(_)
dumps(node) ==
    IF IsDict(node)
    THEN <<[t |-> "{"]>>
         \o Flatten([n \in DOMAIN node.items |->
                <<[t |-> "key", s |-> node.items[n].k]>> \o dumps(node.items[n].v)])
         \o <<[t |-> "}"]>>
    ELSE <<[t |-> "num", n |-> node.val]>>

\* serialize_json(data): None stands for the exception of literal_eval
serialize_json(data) == IF IsLiteral(data) THEN dumps(data) ELSE None

\* hash_json over the keys of the mapping only
hash_json_keys(data) == [md5 |-> [n \in DOMAIN data.items |-> data.items[n].k]]

\* hashlib.md5(...).hexdigest(), taken as injective on the serialized text
hash_json(data) == [md5 |-> serialize_json(data)]

\* str(data) of a dict: like the JSON text, with the keys in single quotes
RECURSIVE repr(_)
repr(node) ==
    IF IsDict(node)
    THEN <<[t |-> "{"]>>
         \o Flatten([n \in DOMAIN node.items |->
                <<[t |-> "key'", s |-> node.items[n].k]>> \o repr(node.items[n].v)])
         \o <<[t |-> "}"]>>
    ELSE <<[t |-> "num", n |-> node.val]>>

\* the result trees of the experiments: {"loss": 1}, {"loss": 2}, {"acc": 1}
KeyLoss == <<"l", "o", "s", "s">>
Documents == {Dict(<<Entry(KeyLoss, PyInt(n))>>) : n \in {1, 2}}
             \cup {Dict(<<Entry(<<"a", "c", "c">>, PyInt(1))>>)}

\* deserialize_json(text) = ast.literal_eval(str(text)): a Python literal is
\* accepted with its keys in either kind of quotes; None stands for the
\* exception raised on any other text (a cut-off document, JSON's true)
deserialize_json(text) ==
    IF \E d \in Documents : text \in {dumps(d), repr(d)}
    THEN CHOOSE d \in Documents : text \in {dumps(d), repr(d)}
    ELSE None

(***************************************************************************)
(* Paths and the file system                                               *)
(***************************************************************************)
OUTPUT_DIR == "experiments"
GroupName == "group"
EmptyPath == <<>>
PathJoin(dir, component) == Append(dir, component)
File(fname) == [c |-> fname]
\* os.path.abspath(os.path.join(misc.OUTPUT_DIR, name))
GroupDir == <<File(OUTPUT_DIR), File(GroupName)>>

\* open(path, "w").write(text): the file is created or replaced
WriteFile(fs, path, text) ==
    [q \in DOMAIN fs \cup {path} |-> IF q = path THEN text ELSE fs[q]]

(***************************************************************************)
(* optim/space.py                                                          *)
(***************************************************************************)
\* a normalized slot value k stands for the number k / Grid of [0, 1]
Grid == 2
Unit == 0..Grid

\* int(q) of the quotient a / b, b > 0: truncation toward zero
TruncDiv(a, b) == IF a >= 0 THEN a \div b ELSE -((-a) \div b)

Integer(low, high) == [type |-> "Integer", size |-> 1, low |-> low, high |-> high]
\* Real.__init__ and Categorical.__init__: size is 1 (Variable.__init__) but
\* for a Categorical, which has one slot for every category
Real(low, high) == [type |-> "Real", size |-> 1, low |-> low, high |-> high]
Categorical(categories) ==
    [type |-> "Categorical", size |-> Len(categories), categories |-> categories]

\* Integer.denormalize: int(x.item() * (high - low) + low)
IntegerDenormalize(var, x) ==
    TruncDiv(x[1] * (var.high - var.low) + var.low * Grid, Grid)

\* slices that advance by one slot for every variable
RECURSIVE compute_inds_by_one(_, _)
compute_inds_by_one(vs, ind) ==
    IF vs = <<>> THEN <<>>
    ELSE <<[start |-> ind, stop |-> ind + 1]>>
         \o compute_inds_by_one(Tail(vs), ind + 1)

\* Space._compute_inds: the slice [start, stop) of every variable
RECURSIVE compute_inds(_, _)
compute_inds(vs, ind) ==
    IF vs = <<>> THEN <<>>
    ELSE <<[start |-> ind, stop |-> ind + Head(vs).size]>>
         \o compute_inds(Tail(vs), ind + Head(vs).size)

Space(vs) == [vars |-> vs, n |-> Len(vs), inds |-> compute_inds(vs, 0),
              size |-> SeqSum([n \in DOMAIN vs |-> vs[n].size])]

\* xs[ind] for a slice
Slice(x, ind) == [n \in 1..(ind.stop - ind.start) |-> x[ind.start + n]]

\* Space.denormalize
SpaceDenormalize(space, x) ==
    [n \in 1..space.n |-> IntegerDenormalize(space.vars[n], Slice(x, space.inds[n]))]

\* the points Space.sample and the bounded local optimizer return in a run:
\* the corners of the unit cube with at most one slot at 1.0
Points(space) ==
    {x \in [1..space.size -> {0, Grid}] :
        Cardinality({n \in 1..space.size : x[n] = Grid}) <= 1}

(***************************************************************************)
(* The program state                                                       *)
(***************************************************************************)
VARIABLES
    pc,               \* the statement the run is at
    err,              \* the exception that left optimize(), or "none"
    \* arguments of optimize()
    params, objective, binary, function, random_starts, iterations,
    kernel, acquisition_fn,
    \* locals of optimize()
    output_dir, unwraped_params, keys, variables, experiments, best, returned,
    \* locals of bayesian_optimization()
    space, xs_n, xs, ys, ys_list, n_iter, i, model, y_opt, x_n, y_n, bo_result,
    \* locals of _eval() and the call site it returns to
    ret, values, sample_params, wraped_params, experiment_dir, params_path,
    results_path, results, loss_val, popen,
    \* the device_id provider instances: id -> index
    index,
    \* the file system: existing directories and the text of every file
    dirs, files,
    \* history: the loss_fn calls (phase and argument), the Popen calls
    \* (experiment directory), the file and process events of the evaluation
    \* in progress
    calls, launch_log, io_log,
    \* a library function called on its own, outside a run: the call (the
    \* function's arguments), the value it has returned, and the threads that
    \* are inside a provider's __call__
    call, value, threads

optimize_args == <<params, objective, binary, function, random_starts,
                   iterations, kernel, acquisition_fn>>
optimize_locals == <<output_dir, unwraped_params, keys, variables>>
bo_locals == <<space, xs_n, xs, ys, ys_list, n_iter, i, model, y_opt, x_n, y_n,
               bo_result>>
eval_locals == <<ret, values, sample_params, wraped_params, experiment_dir,
                 params_path, results_path, results, loss_val, popen>>
history == <<calls, launch_log, io_log>>
library_call == <<call, value, threads>>
vars == <<pc, err, optimize_args, library_call, optimize_locals, experiments, best, returned,
          bo_locals, eval_locals, index, dirs, files, history>>

(***************************************************************************)
(* The parameter trees of the runs                                         *)
(***************************************************************************)
integer(low, high) == [kind |-> "variable", type |-> "integer",
                       low |-> low, high |-> high]
device_id(id, count) == [kind |-> "device_id", id |-> id, count |-> count]
IsVariable(node) == node.kind = "variable"
IsCallable(node) == node.kind \in {"variable", "device_id"}

\* {"lr": integer(0, 1), "net": {"depth": integer(1, 2), "width": 8},
\*  "gpu": device_id(2)}, and the tree that has the provider inside "net":
\* {"lr": integer(0, 1),
\*  "net": {"depth": integer(1, 2), "width": 8, "gpu": device_id(2)}}
KeyLr == <<"l", "r">>
KeyNet == <<"n", "e", "t">>
KeyDepth == <<"d">>
KeyWidth == <<"w">>
KeyGpu == <<"g", "p", "u">>
NetTree == Dict(<<Entry(KeyDepth, integer(1, 2)), Entry(KeyWidth, PyInt(8))>>)
NetTreeWithProvider ==
    Dict(<<Entry(KeyDepth, integer(1, 2)), Entry(KeyWidth, PyInt(8)),
           Entry(KeyGpu, device_id(1, 2))>>)
ParamTrees ==
    { Dict(<<Entry(KeyLr, integer(0, 1)), Entry(KeyNet, NetTree),
             Entry(KeyGpu, device_id(1, 2))>>),
      Dict(<<Entry(KeyLr, integer(0, 1)), Entry(KeyNet, NetTreeWithProvider)>>) }
ProviderIds == {1}

\* objective.minimize(name) / maximize(name)
minimize(name) == [sign |-> 1, name |-> name]
\* a maximize that returns the metric as it is
maximize_as_found(name) == [sign |-> 1, name |-> name]
maximize(name) == [sign |-> -1, name |-> name]
Objectives == {minimize(KeyLoss)}
\* _func(metrics) of minimize / maximize; None stands for the KeyError
ObjectiveCall(obj, metrics) ==
    LET m == lookup_flat(metrics, obj.name)
    IN  IF m.kind # "int" THEN None ELSE PyInt(obj.sign * m.val)

KernelRegistry == {"RBF", "Matern"}
AcquisitionRegistry == {"EI", "UCB"}

NoProcess == [state |-> "none", returncode |-> 0]

\* what an earlier run of the same group has left on disk: nothing, or the
\* directory of the sample lr = 0, net.depth = 1 with both of its files (a
\* run whose base parameter net.width was 4)
EarlierSample(tree) ==
    LET flat == unwrap_dict(tree, DefaultSep)
        vitems == SelectSeq(flat, LAMBDA e : e.v.kind = "variable")
    IN  [n \in DOMAIN vitems |-> Entry(vitems[n].k, PyInt(vitems[n].v.low))]
EarlierDir(tree) == Append(GroupDir, hash_json(Dict(EarlierSample(tree))))
EarlierFiles(tree) ==
    LET dir == EarlierDir(tree)
        resolved == Dict(<<Entry(KeyLr, PyInt(0)),
                           Entry(KeyNet, Dict(<<Entry(KeyDepth, PyInt(1)),
                                                Entry(KeyWidth, PyInt(4))>>)),
                           Entry(KeyGpu, PyInt(0))>>)
    IN  [q \in {Append(dir, [c |-> "params.json"]),
                Append(dir, [c |-> "results.json"])} |->
            IF q = Append(dir, [c |-> "params.json"])
            THEN dumps(resolved)
            ELSE dumps(Dict(<<Entry(KeyLoss, PyInt(2))>>))]

Init ==
    /\ pc = "optimize"
    /\ err = "none"
    /\ params \in ParamTrees
    /\ objective \in Objectives
    /\ binary \in {None, [kind |-> "str"]}
    /\ function \in {None, [kind |-> "function"]}
    /\ binary = None \/ function = None
    /\ random_starts \in 0..MaxInitialPoints
    /\ iterations \in 0..MaxCalls
    /\ kernel \in {"RBF", "Laplace"}
    /\ acquisition_fn \in {"EI", "PI"}
    /\ output_dir = EmptyPath
    /\ unwraped_params = <<>>
    /\ keys = <<>>
    /\ variables = <<>>
    /\ experiments = <<>>
    /\ best = None
    /\ returned = None
    /\ space = None
    /\ xs_n = <<>>
    /\ xs = <<>>
    /\ ys = <<>>
    /\ ys_list = <<>>
    /\ n_iter = 0
    /\ i = 0
    /\ model = None
    /\ y_opt = None
    /\ x_n = <<>>
    /\ y_n = None
    /\ bo_result = None
    /\ ret = "none"
    /\ values = <<>>
    /\ sample_params = <<>>
    /\ wraped_params = None
    /\ experiment_dir = EmptyPath
    /\ params_path = EmptyPath
    /\ results_path = EmptyPath
    /\ results = None
    /\ loss_val = None
    /\ popen = NoProcess
    /\ index = [id \in ProviderIds |-> -1]
    /\ \/ dirs = {} /\ files = <<>>
       \/ /\ binary # None
          /\ function = None
          /\ dirs = {GroupDir, EarlierDir(params)}
          /\ files = EarlierFiles(params)
    /\ calls = <<>>
    /\ launch_log = <<>>
    /\ io_log = <<>>
    /\ call = None
    /\ value = None
    /\ threads = <<>>

\* an exception leaves optimize(): nothing catches it
Raise(e) == pc' = "raised" /\ err' = e

(***************************************************************************)
(* optimize(): entry                                                       *)
(***************************************************************************)
\* optimize.py 61-62
CheckMode ==
    /\ pc = "optimize"
    /\ IF binary = None /\ function = None
       THEN Raise("ValueError")
       ELSE pc' = "setup" /\ err' = err
    /\ UNCHANGED <<optimize_args, library_call, optimize_locals, experiments, best, returned,
                   bo_locals, eval_locals, index, dirs, files, history>>

\* the keys and the Variable objects of the variable leaves, in dict order
VariableItems(flat) == SelectSeq(flat, LAMBDA e : IsVariable(e.v))
\* integer.__call__ returns skopt.space.Integer(low, high), an object of the
\* scikit-optimize library.  Space reads var.size and calls var.denormalize:
\* the object is taken with the range and the size of optim/space.py's
\* Integer; whether it has a denormalize method is settled where
\* Space.denormalize first calls it (SampleInitial).
MakeVariable(node) == Integer(node.low, node.high)

\* optimize.py 66-81
Setup ==
    /\ pc = "setup"
    /\ LET dir == GroupDir
           flat == unwrap_dict(params, DefaultSep)
           vitems == VariableItems(flat)
       IN  /\ IF binary # None
              THEN output_dir' = dir /\ dirs' = dirs \cup {dir}
              ELSE UNCHANGED <<output_dir, dirs>>
           /\ unwraped_params' = flat
           /\ keys' = [n \in DOMAIN vitems |-> vitems[n].k]
           /\ variables' = [n \in DOMAIN vitems |-> MakeVariable(vitems[n].v)]
    /\ pc' = "bo_kernel"
    /\ UNCHANGED <<err, optimize_args, library_call, experiments, best, returned, bo_locals,
                   eval_locals, index, files, history>>

(***************************************************************************)
(* bayesian_optimization()                                                 *)
(***************************************************************************)
\* bayesian_optimization.py 66-67: Kernel.create looks the name up
CreateKernel ==
    /\ pc = "bo_kernel"
    /\ IF kernel \in KernelRegistry
       THEN pc' = "bo_acquisition" /\ err' = err
       ELSE Raise("KeyError")
    /\ UNCHANGED <<optimize_args, library_call, optimize_locals, experiments, best, returned,
                   bo_locals, eval_locals, index, dirs, files, history>>

\* bayesian_optimization.py 69
CreateAcquisitionFn ==
    /\ pc = "bo_acquisition"
    /\ IF acquisition_fn \in AcquisitionRegistry
       THEN pc' = "bo_sample" /\ err' = err
       ELSE Raise("KeyError")
    /\ UNCHANGED <<optimize_args, library_call, optimize_locals, experiments, best, returned,
                   bo_locals, eval_locals, index, dirs, files, history>>

\* bayesian_optimization.py 71-74.  Line 74 is the first call of
\* var.denormalize: with variable objects that have the method the points
\* are denormalized, with objects that lack it the call raises
\* AttributeError.
SampleInitial ==
    /\ pc = "bo_sample"
    /\ LET sp == Space(variables)
       IN  /\ space' = sp
           /\ \E sample \in [1..random_starts -> Points(sp)] :
                 /\ xs_n' = sample
                 /\ \/ /\ xs' = [n \in 1..random_starts |->
                                    SpaceDenormalize(sp, sample[n])]
                       /\ pc' = "bo_init"
                       /\ err' = err
                    \/ /\ random_starts > 0
                       /\ variables # <<>>
                       /\ xs' = xs
                       /\ Raise("AttributeError")
    /\ UNCHANGED <<optimize_args, library_call, optimize_locals, experiments, best,
                   returned, ys, ys_list, n_iter, i, model, y_opt, x_n, y_n,
                   bo_result, eval_locals, index, dirs, files, history>>

\* loss_fn(x): control enters _eval
CallLoss(x, site, phase) ==
    /\ values' = x
    /\ ret' = site
    /\ calls' = Append(calls, [phase |-> phase, x |-> x])
    /\ io_log' = <<>>
    /\ pc' = "eval_begin"

\* InitialLoop with n_iter = n_calls: the initial points are not subtracted
InitialLoopAllCalls ==
    /\ pc = "bo_init"
    /\ IF Len(ys_list) < Len(xs)
       THEN /\ CallLoss(xs[Len(ys_list) + 1], "bo_init", "random")
            /\ UNCHANGED <<ys, n_iter>>
       ELSE /\ ys' = ys_list
            /\ n_iter' = iterations
            /\ pc' = "bo_loop"
            /\ UNCHANGED <<values, ret, calls, io_log>>
    /\ UNCHANGED <<err, optimize_args, library_call, optimize_locals, experiments, best,
                   returned, space, xs_n, xs, ys_list, i, model, y_opt, x_n, y_n,
                   bo_result, sample_params, wraped_params, experiment_dir,
                   params_path, results_path, results, loss_val, popen, index,
                   dirs, files, launch_log>>

\* bayesian_optimization.py 75-77: the list comprehension over xs, then
\* ys = np.array(...) and n_iter
InitialLoop ==
    /\ pc = "bo_init"
    /\ IF Len(ys_list) < Len(xs)
       THEN /\ CallLoss(xs[Len(ys_list) + 1], "bo_init", "random")
            /\ UNCHANGED <<ys, n_iter>>
       ELSE /\ ys' = ys_list
            /\ n_iter' = iterations - random_starts
            /\ pc' = "bo_loop"
            /\ UNCHANGED <<values, ret, calls, io_log>>
    /\ UNCHANGED <<err, optimize_args, library_call, optimize_locals, experiments, best,
                   returned, space, xs_n, xs, ys_list, i, model, y_opt, x_n, y_n,
                   bo_result, sample_params, wraped_params, experiment_dir,
                   params_path, results_path, results, loss_val, popen, index,
                   dirs, files, launch_log>>

\* bayesian_optimization.py 79: for i in range(n_iter); 97: the return
LoopHead ==
    /\ pc = "bo_loop"
    /\ IF i < n_iter
       THEN pc' = "bo_fit" /\ bo_result' = bo_result
       ELSE /\ pc' = "select"
            /\ bo_result' = [list |->
                  [n \in 1..(IF Len(xs) < Len(ys) THEN Len(xs) ELSE Len(ys))
                      |-> <<xs[n], ys[n]>>]]
    /\ UNCHANGED <<err, optimize_args, library_call, optimize_locals, experiments, best,
                   returned, space, xs_n, xs, ys, ys_list, n_iter, i, model,
                   y_opt, x_n, y_n, eval_locals, index, dirs, files, history>>

\* Fit on the initial points only: the observations of the loop are left out
FitInitialOnly ==
    /\ pc = "bo_fit"
    /\ model' = [xs |-> SubSeq(xs_n, 1, random_starts),
                 ys |-> SubSeq(ys, 1, random_starts)]
    /\ pc' = "bo_y_opt"
    /\ UNCHANGED <<err, optimize_args, library_call, optimize_locals, experiments, best,
                   returned, space, xs_n, xs, ys, ys_list, n_iter, i, y_opt, x_n,
                   y_n, bo_result, eval_locals, index, dirs, files, history>>

\* bayesian_optimization.py 80, gaussian_process.py 40-43
Fit ==
    /\ pc = "bo_fit"
    /\ model' = [xs |-> xs_n, ys |-> ys]
    /\ pc' = "bo_y_opt"
    /\ UNCHANGED <<err, optimize_args, library_call, optimize_locals, experiments, best,
                   returned, space, xs_n, xs, ys, ys_list, n_iter, i, y_opt, x_n,
                   y_n, bo_result, eval_locals, index, dirs, files, history>>

\* bayesian_optimization.py 81: min() of an empty sequence raises ValueError
ComputeYOpt ==
    /\ pc = "bo_y_opt"
    /\ IF ys = <<>>
       THEN Raise("ValueError") /\ y_opt' = y_opt
       ELSE pc' = "bo_propose" /\ err' = err /\ y_opt' = PyInt(Min(ys))
    /\ UNCHANGED <<optimize_args, library_call, optimize_locals, experiments, best, returned,
                   space, xs_n, xs, ys, ys_list, n_iter, i, model, x_n, y_n,
                   bo_result, eval_locals, index, dirs, files, history>>

\* bayesian_optimization.py 82-88: the point the restarts of L-BFGS-B end at,
\* or the AttributeError of line 38 when no restart has given min_x a value
Propose ==
    /\ pc = "bo_propose"
    /\ \/ /\ \E x \in Points(space) : x_n' = x
          /\ pc' = "bo_call"
          /\ err' = err
       \/ /\ x_n' = x_n
          /\ Raise("AttributeError")
    /\ UNCHANGED <<optimize_args, library_call, optimize_locals, experiments, best,
                   returned, space, xs_n, xs, ys, ys_list, n_iter, i, model,
                   y_opt, y_n, bo_result, eval_locals, index, dirs, files,
                   history>>

\* bayesian_optimization.py 90-91
EvaluateProposal ==
    /\ pc = "bo_call"
    /\ CallLoss(SpaceDenormalize(space, x_n), "bo_record", "gp")
    /\ UNCHANGED <<err, optimize_args, library_call, optimize_locals, experiments, best,
                   returned, bo_locals, sample_params, wraped_params,
                   experiment_dir, params_path, results_path, results, loss_val,
                   popen, index, dirs, files, launch_log>>

\* Record with the arguments of np.append(ys, y_n) swapped
RecordInFront ==
    /\ pc = "bo_record"
    /\ xs' = Append(xs, SpaceDenormalize(space, x_n))
    /\ xs_n' = Append(xs_n, x_n)
    /\ ys' = <<y_n.val>> \o ys
    /\ i' = i + 1
    /\ pc' = "bo_loop"
    /\ UNCHANGED <<err, optimize_args, library_call, optimize_locals, experiments, best,
                   returned, space, ys_list, n_iter, model, y_opt, x_n, y_n,
                   bo_result, eval_locals, index, dirs, files, history>>

\* bayesian_optimization.py 93-95 and the next i
Record ==
    /\ pc = "bo_record"
    /\ xs' = Append(xs, SpaceDenormalize(space, x_n))
    /\ xs_n' = Append(xs_n, x_n)
    /\ ys' = Append(ys, y_n.val)
    /\ i' = i + 1
    /\ pc' = "bo_loop"
    /\ UNCHANGED <<err, optimize_args, library_call, optimize_locals, experiments, best,
                   returned, space, ys_list, n_iter, model, y_opt, x_n, y_n,
                   bo_result, eval_locals, index, dirs, files, history>>

(***************************************************************************)
(* _eval(values)                                                           *)
(***************************************************************************)
\* dict(zip(keys, values))
ZipDict(ks, vs) ==
    [n \in 1..(IF Len(ks) < Len(vs) THEN Len(ks) ELSE Len(vs))
        |-> Entry(ks[n], PyInt(vs[n]))]

\* optimize.py 94-120
EvalBegin ==
    /\ pc = "eval_begin"
    /\ LET sample == ZipDict(keys, values)
           merged_params == merge_dicts(unwraped_params, sample)
           wraped == wrap_dict(merged_params, DefaultSep)
           dir == PathJoin(output_dir, hash_json(Dict(sample)))
       IN  /\ sample_params' = sample
           /\ IF wraped = None \/ serialize_json(Dict(sample)) = None
              THEN /\ Raise("TypeError")
                   /\ UNCHANGED <<wraped_params, experiment_dir, params_path,
                                  results_path, dirs>>
              ELSE /\ pc' = "eval_resolve" /\ err' = err
                   /\ wraped_params' = wraped
                   /\ IF binary # None
                      THEN /\ experiment_dir' = dir
                           /\ dirs' = dirs \cup {dir}
                           /\ params_path' = PathJoin(dir, File("params.json"))
                           /\ results_path' = PathJoin(dir, File("results.json"))
                      ELSE /\ experiment_dir' = EmptyPath
                           /\ params_path' = EmptyPath
                           /\ results_path' = EmptyPath
                           /\ dirs' = dirs
    /\ UNCHANGED <<optimize_args, library_call, optimize_locals, experiments, best, returned,
                   bo_locals, ret, values, results, loss_val, popen, index,
                   files, history>>

\* device_id.__call__ (misc.py 101-102) on the instance with the given index
DeviceIdNext(provider, idx) == (idx + 1) % provider.count

\* the dict comprehension of optimize.py 123-130 over the items of the top
\* level, in order: [items, index] after the first n items
RECURSIVE ResolveItems(_, _, _)
ResolveItems(items, n, idx) ==
    IF n = 0 THEN [items |-> <<>>, index |-> idx]
    ELSE LET before == ResolveItems(items, n - 1, idx)
             e == items[n]
         IN  IF e.v.kind = "device_id"
             THEN LET next == DeviceIdNext(e.v, before.index[e.v.id])
                  IN  [items |-> Append(before.items, Entry(e.k, PyInt(next))),
                       index |-> [before.index EXCEPT ![e.v.id] = next]]
             ELSE [items |-> Append(before.items, e), index |-> before.index]

\* optimize.py 123-134
EvalResolve ==
    /\ pc = "eval_resolve"
    /\ LET r == ResolveItems(wraped_params.items, Len(wraped_params.items), index)
       IN  /\ wraped_params' = Dict(r.items)
           /\ index' = r.index
    /\ pc' = IF function # None THEN "eval_function" ELSE "eval_write"
    /\ UNCHANGED <<err, optimize_args, library_call, optimize_locals, experiments, best,
                   returned, bo_locals, ret, values, sample_params,
                   experiment_dir, params_path, results_path, results, loss_val,
                   popen, dirs, files, history>>

\* optimize.py 133: the caller's function returns a result tree or raises
EvalFunction ==
    /\ pc = "eval_function"
    /\ \/ \E r \in Documents :
             results' = r /\ pc' = "eval_objective" /\ err' = err
       \/ Raise("Exception") /\ results' = results
    /\ UNCHANGED <<optimize_args, library_call, optimize_locals, experiments, best, returned,
                   bo_locals, ret, values, sample_params, wraped_params,
                   experiment_dir, params_path, results_path, loss_val, popen,
                   index, dirs, files, history>>

\* optimize.py 136-137: open(.., "w") empties the file before the text is
\* computed; ast.literal_eval rejects the text of a tree that holds an object
EvalWriteParams ==
    /\ pc = "eval_write"
    /\ LET text == serialize_json(wraped_params)
       IN  IF text = None
           THEN /\ files' = WriteFile(files, params_path, <<>>)
                /\ Raise("SyntaxError")
                /\ io_log' = io_log
           ELSE /\ files' = WriteFile(files, params_path, text)
                /\ pc' = "eval_exists" /\ err' = err
                /\ io_log' = Append(io_log, "write_params")
    /\ UNCHANGED <<optimize_args, library_call, optimize_locals, experiments, best, returned,
                   bo_locals, eval_locals, index, dirs, calls, launch_log>>

\* EvalExists without the test of results_path: every evaluation launches
EvalExistsAlwaysLaunch ==
    /\ pc = "eval_exists"
    /\ pc' = "eval_popen"
    /\ UNCHANGED <<err, optimize_args, library_call, optimize_locals, experiments, best,
                   returned, bo_locals, eval_locals, index, dirs, files, history>>

\* optimize.py 140, 147-148
EvalExists ==
    /\ pc = "eval_exists"
    /\ pc' = IF results_path \notin DOMAIN files THEN "eval_popen" ELSE "eval_read"
    /\ UNCHANGED <<err, optimize_args, library_call, optimize_locals, experiments, best,
                   returned, bo_locals, eval_locals, index, dirs, files, history>>

\* optimize.py 141-144
EvalPopen ==
    /\ pc = "eval_popen"
    /\ popen' = [state |-> "running", returncode |-> 0]
    /\ launch_log' = Append(launch_log, experiment_dir)
    /\ io_log' = Append(io_log, "launch")
    /\ pc' = "eval_wait"
    /\ UNCHANGED <<err, optimize_args, library_call, optimize_locals, experiments, best,
                   returned, bo_locals, ret, values, sample_params,
                   wraped_params, experiment_dir, params_path, results_path,
                   results, loss_val, index, dirs, files, calls>>

\* EvalWait without popen.wait(): the process is not waited for
EvalWaitNoWait ==
    /\ pc = "eval_wait"
    /\ pc' = "eval_read"
    /\ UNCHANGED <<err, optimize_args, library_call, optimize_locals, experiments, best,
                   returned, bo_locals, eval_locals, index, dirs, files, history>>

\* optimize.py 145-146: popen.wait() returns when the process has exited; the
\* exit status it returns is dropped
EvalWait ==
    /\ pc = "eval_wait"
    /\ popen.state = "exited"
    /\ pc' = "eval_read"
    /\ UNCHANGED <<err, optimize_args, library_call, optimize_locals, experiments, best,
                   returned, bo_locals, eval_locals, index, dirs, files, history>>

\* EvalRead with a default result in place of a missing results.json
EvalReadDefault ==
    /\ pc = "eval_read"
    /\ IF results_path \notin DOMAIN files
       THEN /\ results' = Dict(<<Entry(KeyLoss, PyInt(1))>>)
            /\ pc' = "eval_objective" /\ err' = err
            /\ io_log' = io_log
       ELSE LET r == deserialize_json(files[results_path])
            IN  /\ io_log' = Append(io_log, "read_results")
                /\ IF r = None
                   THEN Raise("SyntaxError") /\ results' = results
                   ELSE pc' = "eval_objective" /\ err' = err /\ results' = r
    /\ UNCHANGED <<optimize_args, library_call, optimize_locals, experiments, best, returned,
                   bo_locals, ret, values, sample_params, wraped_params,
                   experiment_dir, params_path, results_path, loss_val, popen,
                   index, dirs, files, calls, launch_log>>

\* optimize.py 151-152
EvalRead ==
    /\ pc = "eval_read"
    /\ IF results_path \notin DOMAIN files
       THEN Raise("FileNotFoundError") /\ UNCHANGED <<results, io_log>>
       ELSE LET r == deserialize_json(files[results_path])
            IN  /\ io_log' = Append(io_log, "read_results")
                /\ IF r = None
                   THEN Raise("SyntaxError") /\ results' = results
                   ELSE pc' = "eval_objective" /\ err' = err /\ results' = r
    /\ UNCHANGED <<optimize_args, library_call, optimize_locals, experiments, best, returned,
                   bo_locals, ret, values, sample_params, wraped_params,
                   experiment_dir, params_path, results_path, loss_val, popen,
                   index, dirs, files, calls, launch_log>>

\* optimize.py 156
EvalObjective ==
    /\ pc = "eval_objective"
    /\ LET l == ObjectiveCall(objective, results)
       IN  IF l = None
           THEN Raise("KeyError") /\ loss_val' = loss_val
           ELSE pc' = "eval_append" /\ err' = err /\ loss_val' = l
    /\ UNCHANGED <<optimize_args, library_call, optimize_locals, experiments, best, returned,
                   bo_locals, ret, values, sample_params, wraped_params,
                   experiment_dir, params_path, results_path, results, popen,
                   index, dirs, files, history>>

\* optimize.py 158-167 and the return into bayesian_optimization.py 75 / 91
EvalAppend ==
    /\ pc = "eval_append"
    /\ experiments' = Append(experiments,
          [params |-> wrap_dict(sample_params, DefaultSep),
           results |-> results,
           loss |-> loss_val.val,
           experiment_dir |-> experiment_dir,
           params_path |-> params_path,
           results_path |-> results_path])
    /\ IF ret = "bo_init"
       THEN ys_list' = Append(ys_list, loss_val.val) /\ y_n' = y_n
       ELSE y_n' = loss_val /\ ys_list' = ys_list
    /\ pc' = ret
    /\ ret' = "none"
    /\ values' = <<>>
    /\ sample_params' = <<>>
    /\ wraped_params' = None
    /\ experiment_dir' = EmptyPath
    /\ params_path' = EmptyPath
    /\ results_path' = EmptyPath
    /\ results' = None
    /\ loss_val' = None
    /\ popen' = NoProcess
    /\ UNCHANGED <<err, optimize_args, library_call, optimize_locals, best, returned, space,
                   xs_n, xs, ys, n_iter, i, model, y_opt, x_n, bo_result, index,
                   dirs, files, history>>

(***************************************************************************)
(* The launched experiment: a process of its own                           *)
(***************************************************************************)
\* what an experiment can leave in results.json: the JSON text of a result
\* tree, a cut-off text, the JSON text {"loss": true}, the text {'acc': 1}
ResultTexts ==
    {dumps(d) : d \in Documents}
    \cup {<<[t |-> "{"]>>,
          <<[t |-> "{"], [t |-> "key", s |-> KeyLoss], [t |-> "true"], [t |-> "}"]>>,
          repr(Dict(<<Entry(<<"a", "c", "c">>, PyInt(1))>>))}
ExitCodes == {0, 1}

ProcessWritesResults ==
    /\ popen.state = "running"
    /\ \E text \in ResultTexts : files' = WriteFile(files, results_path, text)
    /\ UNCHANGED <<pc, err, optimize_args, library_call, optimize_locals, experiments, best,
                   returned, bo_locals, eval_locals, index, dirs, history>>

ProcessExits ==
    /\ popen.state = "running"
    /\ \E code \in ExitCodes : popen' = [state |-> "exited", returncode |-> code]
    /\ io_log' = Append(io_log, "exit")
    /\ UNCHANGED <<pc, err, optimize_args, library_call, optimize_locals, experiments, best,
                   returned, bo_locals, ret, values, sample_params,
                   wraped_params, experiment_dir, params_path, results_path,
                   results, loss_val, index, dirs, files, calls, launch_log>>

(***************************************************************************)
(* optimize(): the best experiment                                         *)
(***************************************************************************)
\* a scan that replaces the best on an equal loss as well
RECURSIVE BestFromLast(_, _, _)
BestFromLast(exps, n, b) ==
    IF n > Len(exps) THEN b
    ELSE BestFromLast(exps, n + 1, IF exps[n].loss <= b.loss THEN exps[n] ELSE b)

\* optimize.py 181-184: the scan keeps the first of equal losses
RECURSIVE BestFrom(_, _, _)
BestFrom(exps, n, b) ==
    IF n > Len(exps) THEN b
    ELSE BestFrom(exps, n + 1, IF exps[n].loss < b.loss THEN exps[n] ELSE b)

SelectBest ==
    /\ pc = "select"
    /\ IF experiments = <<>>
       THEN Raise("IndexError") /\ best' = best
       ELSE pc' = "summary" /\ err' = err
            /\ best' = BestFrom(experiments, 1, experiments[1])
    /\ UNCHANGED <<optimize_args, library_call, optimize_locals, experiments, returned,
                   bo_locals, eval_locals, index, dirs, files, history>>

\* optimize.py 186-199
WriteSummary ==
    /\ pc = "summary"
    /\ IF binary # None
       THEN /\ files' = WriteFile(files, PathJoin(output_dir, File("best.json")),
                  <<[experiment_dir |-> best.experiment_dir,
                     params |-> serialize_json(best.params),
                     results |-> serialize_json(best.results)]>>)
            /\ returned' = returned
       ELSE returned' = best /\ files' = files
    /\ pc' = "done"
    /\ UNCHANGED <<err, optimize_args, library_call, optimize_locals, experiments, best,
                   bo_locals, eval_locals, index, dirs, history>>

Next ==
    \/ CheckMode \/ Setup
    \/ CreateKernel \/ CreateAcquisitionFn \/ SampleInitial \/ InitialLoop
    \/ LoopHead \/ Fit \/ ComputeYOpt \/ Propose \/ EvaluateProposal \/ Record
    \/ EvalBegin \/ EvalResolve \/ EvalFunction \/ EvalWriteParams
    \/ EvalExists \/ EvalPopen \/ EvalWait \/ EvalRead \/ EvalObjective
    \/ EvalAppend
    \/ ProcessWritesResults \/ ProcessExits
    \/ SelectBest \/ WriteSummary

Spec == Init /\ [][Next]_vars

(***************************************************************************)
(* Library functions called on their own                                   *)
(***************************************************************************)
\* no run of optimize() is in progress
NoRun ==
    /\ err = "none"
    /\ params = None
    /\ objective = None
    /\ binary = None
    /\ function = None
    /\ random_starts = 0
    /\ iterations = 0
    /\ kernel = "RBF"
    /\ acquisition_fn = "EI"
    /\ output_dir = EmptyPath
    /\ unwraped_params = <<>>
    /\ keys = <<>>
    /\ variables = <<>>
    /\ experiments = <<>>
    /\ best = None
    /\ returned = None
    /\ space = None
    /\ xs_n = <<>>
    /\ xs = <<>>
    /\ ys = <<>>
    /\ ys_list = <<>>
    /\ n_iter = 0
    /\ i = 0
    /\ model = None
    /\ y_opt = None
    /\ x_n = <<>>
    /\ y_n = None
    /\ bo_result = None
    /\ ret = "none"
    /\ values = <<>>
    /\ sample_params = <<>>
    /\ wraped_params = None
    /\ experiment_dir = EmptyPath
    /\ params_path = EmptyPath
    /\ results_path = EmptyPath
    /\ results = None
    /\ loss_val = None
    /\ popen = NoProcess
    /\ dirs = {}
    /\ files = <<>>
    /\ calls = <<>>
    /\ launch_log = <<>>
    /\ io_log = <<>>
run_state == <<err, optimize_args, optimize_locals, experiments, best, returned,
               bo_locals, eval_locals, dirs, files, history>>

(***************************************************************************)
(* misc.device_id: calls from one thread                                   *)
(***************************************************************************)
MaxProviderCalls == 6

\* two instances: device_id(2) and device_id(3)
Pool == {device_id(1, 2), device_id(2, 3)}

\* device_id.__init__ (misc.py 87-89) of every instance of the pool
InitDeviceId ==
    /\ NoRun
    /\ pc = "library"
    /\ index = [id \in {p.id : p \in Pool} |-> -1]
    /\ call = None
    /\ value = <<>>
    /\ threads = <<>>

\* a counter that all instances share
DeviceIdCallShared(self) ==
    /\ Len(value) < MaxProviderCalls
    /\ index' = [id \in DOMAIN index |-> DeviceIdNext(self, index[self.id])]
    /\ value' = Append(value, [self |-> self.id, ret |-> index'[self.id]])
    /\ UNCHANGED <<pc, run_state, call, threads>>

\* device_id.__call__ (misc.py 91-102) on the instance self; value is the
\* sequence of the values returned so far
DeviceIdCall(self) ==
    /\ Len(value) < MaxProviderCalls
    /\ index' = [index EXCEPT ![self.id] = DeviceIdNext(self, index[self.id])]
    /\ value' = Append(value, [self |-> self.id, ret |-> index'[self.id]])
    /\ UNCHANGED <<pc, run_state, call, threads>>

NextDeviceId == \E self \in Pool : DeviceIdCall(self)

SpecDeviceId == InitDeviceId /\ [][NextDeviceId]_vars

(***************************************************************************)
(* misc.device_id: calls from several threads on one instance.  __call__   *)
(* takes no lock: a thread can be preempted between the read of self.index *)
(* and the assignment of line 101, and between line 101 and the read of    *)
(* line 102.                                                               *)
(***************************************************************************)
NumThreads == 2
MaxThreadCalls == 2
Threads == 1..NumThreads

\* the instance the threads share: device_id(2)
Shared == device_id(1, 2)

InitDeviceIdThreads ==
    /\ NoRun
    /\ pc = "library"
    /\ index = [id \in {Shared.id} |-> -1]
    /\ call = None
    /\ value = <<>>
    /\ threads = [t \in Threads |-> [pc |-> "idle", tmp |-> -1, n |-> 0]]

\* a thread enters __call__ and evaluates self.index + 1 (misc.py 101, the
\* right-hand side)
DeviceIdLoad(t) ==
    /\ threads[t].pc = "idle"
    /\ threads[t].n < MaxThreadCalls
    /\ threads' = [threads EXCEPT ![t] = [pc |-> "store",
                                          tmp |-> index[Shared.id] + 1,
                                          n |-> @.n + 1]]
    /\ UNCHANGED <<pc, run_state, index, call, value>>

\* self.index = ... % self.count (misc.py 101, the assignment)
DeviceIdStore(t) ==
    /\ threads[t].pc = "store"
    /\ index' = [index EXCEPT ![Shared.id] = threads[t].tmp % Shared.count]
    /\ threads' = [threads EXCEPT ![t].pc = "return"]
    /\ UNCHANGED <<pc, run_state, call, value>>

\* return self.index (misc.py 102)
DeviceIdReturn(t) ==
    /\ threads[t].pc = "return"
    /\ value' = Append(value, [thread |-> t, ret |-> index[Shared.id]])
    /\ threads' = [threads EXCEPT ![t].pc = "idle"]
    /\ UNCHANGED <<pc, run_state, index, call>>

NextDeviceIdThreads ==
    \E t \in Threads : DeviceIdLoad(t) \/ DeviceIdStore(t) \/ DeviceIdReturn(t)

SpecDeviceIdThreads == InitDeviceIdThreads /\ [][NextDeviceIdThreads]_vars

(***************************************************************************)
(* dict_utils.unwrap_dict and wrap_dict applied to a nested mapping        *)
(***************************************************************************)
MaxDepth == 2

\* the separators passed as sep; no key holds one of them
Seps == {".", "/"}
KeyA == <<"a">>
KeyB == <<"b">>

\* the mappings over the keys "a" and "b" with the given values
DictsOver(vals) ==
    {Dict(<<>>)}
        \cup {Dict(<<Entry(k, v)>>) : k \in {KeyA, KeyB}, v \in vals}
        \cup {Dict(<<Entry(KeyA, v), Entry(KeyB, w)>>) : v \in vals, w \in vals}
\* a leaf, or a mapping nested at most depth levels deep
RECURSIVE Nested(_)
Nested(depth) ==
    IF depth = 0 THEN {PyInt(1)}
    ELSE {PyInt(1)} \cup DictsOver(Nested(depth - 1))

InitDict ==
    /\ NoRun
    /\ pc = "unwrap_dict"
    /\ index = <<>>
    /\ call \in [dic : DictsOver(Nested(MaxDepth - 1)), sep : Seps]
    /\ value = None
    /\ threads = <<>>

\* flat = unwrap_dict(d, sep=sep)
CallUnwrapDict ==
    /\ pc = "unwrap_dict"
    /\ value' = [flat |-> unwrap_dict(call.dic, call.sep)]
    /\ pc' = "wrap_dict"
    /\ UNCHANGED <<run_state, index, call, threads>>

\* wrap_dict(flat, sep=sep)
CallWrapDict ==
    /\ pc = "wrap_dict"
    /\ value' = [flat |-> value.flat, dic |-> wrap_dict(value.flat, call.sep)]
    /\ pc' = "done"
    /\ UNCHANGED <<run_state, index, call, threads>>

NextDict == CallUnwrapDict \/ CallWrapDict

SpecDict == InitDict /\ [][NextDict]_vars

(***************************************************************************)
(* objective.minimize / maximize applied to result trees, and the scan for *)
(* the best record (optimize.py 156-165, 181-184)                          *)
(***************************************************************************)
MaxResults == 3

\* the dotted path "val.loss"
KeyVal == <<"v", "a", "l">>
KeyValLoss == KeyVal \o <<DefaultSep>> \o KeyLoss
\* the result trees {"loss": a, "val": {"loss": b}}
ResultTrees ==
    {Dict(<<Entry(KeyLoss, PyInt(a)),
            Entry(KeyVal, Dict(<<Entry(KeyLoss, PyInt(b))>>))>>) :
        a \in {0, 1}, b \in {-1, 1}}
ObjectiveFns ==
    {minimize(KeyLoss), maximize(KeyLoss), minimize(KeyValLoss), maximize(KeyValLoss)}

InitObjective ==
    /\ NoRun
    /\ pc = "objective"
    /\ index = <<>>
    /\ \E n \in 1..MaxResults :
          call \in [objective : ObjectiveFns, results : [1..n -> ResultTrees]]
    /\ value = [experiments |-> <<>>, best |-> None]
    /\ threads = <<>>

\* loss_val = objective(results) and experiments.append (optimize.py 156-165)
\* for the next result tree
CallObjective ==
    /\ pc = "objective"
    /\ Len(value.experiments) < Len(call.results)
    /\ LET r == call.results[Len(value.experiments) + 1]
           l == ObjectiveCall(call.objective, r)
       IN  value' = [value EXCEPT !.experiments =
                        Append(@, [results |-> r, loss |-> l.val])]
    /\ UNCHANGED <<pc, run_state, index, call, threads>>

\* optimize.py 181-184 after the last evaluation
CallSelectBest ==
    /\ pc = "objective"
    /\ Len(value.experiments) = Len(call.results)
    /\ value' = [value EXCEPT !.best =
                    BestFrom(value.experiments, 1, value.experiments[1])]
    /\ pc' = "done"
    /\ UNCHANGED <<run_state, index, call, threads>>

NextObjective == CallObjective \/ CallSelectBest

SpecObjective == InitObjective /\ [][NextObjective]_vars

(***************************************************************************)
(* optim/space.py: Space built from a list of variables                    *)
(***************************************************************************)
MaxVars == 3

CategoryLists == {<<"x">>, <<"x", "y">>, <<"x", "y", "z">>}
VariablePool ==
    {Real(0, 1), Integer(0, 3)} \cup {Categorical(c) : c \in CategoryLists}

InitSpace ==
    /\ NoRun
    /\ pc = "Space"
    /\ index = <<>>
    /\ \E n \in 0..MaxVars : call \in [vars : [1..n -> VariablePool]]
    /\ value = None
    /\ threads = <<>>

\* Space(vars) (space.py 104-115)
CallSpace ==
    /\ pc = "Space"
    /\ value' = Space(call.vars)
    /\ pc' = "done"
    /\ UNCHANGED <<run_state, index, call, threads>>

NextSpace == CallSpace

SpecSpace == InitSpace /\ [][NextSpace]_vars

(***************************************************************************)
(* optim/space.py: Real.denormalize and Integer.denormalize of one slot    *)
(* value.  Real.denormalize computes in binary floating point: a float is  *)
(* a whole number of units of 1 / FloatScale with at most Precision        *)
(* significant bits (53 in the double the code uses), and every operation  *)
(* rounds its exact result to the nearest float, ties to even.             *)
(***************************************************************************)
Precision == 3
FloatScale == 2 ^ (Precision + 2)

Abs(n) == IF n < 0 THEN 0 - n ELSE n
\* the whole number nearest to m / d (m >= 0, d > 0), the even one on a tie
RoundDiv(m, d) ==
    LET q == m \div d
        r == m % d
    IN  IF 2 * r < d THEN q
        ELSE IF 2 * r > d THEN q + 1
        ELSE IF q % 2 = 0 THEN q ELSE q + 1
\* the distance between neighbouring floats around m / d units
RECURSIVE SpacingFrom(_, _, _)
SpacingFrom(m, d, s) ==
    IF m < d * s * 2 ^ Precision THEN s ELSE SpacingFrom(m, d, 2 * s)
\* the float nearest to a / b units (b > 0)
Float(a, b) ==
    LET s == SpacingFrom(Abs(a), b, 1)
        q == s * RoundDiv(Abs(a), b * s)
    IN  IF a < 0 THEN 0 - q ELSE q
FloatAdd(a, b) == Float(a + b, 1)
FloatSub(a, b) == Float(a - b, 1)
FloatMul(a, b) == Float(a * b, FloatScale)
\* the float of the slot value k / Grid
SlotValue(k) == Float(k * FloatScale, Grid)

\* Real.denormalize: x.item() * (self.high - self.low) + self.low, in units
RealDenormalize(var, x) ==
    FloatAdd(FloatMul(SlotValue(x[1]), FloatSub(var.high, var.low)), var.low)

\* var.denormalize(x): a float, in units, for a Real and an int for an Integer
VariableDenormalize(var, x) ==
    IF var.type = "Real" THEN RealDenormalize(var, x)
    ELSE IntegerDenormalize(var, x)

\* bounds of Real variables, in units: -1.0, -0.25, 0.0, 5 units, 0.25, 1.0
FloatBounds ==
    {0 - FloatScale, 0 - (FloatScale \div 4), 0, 5, FloatScale \div 4, FloatScale}
IntegerBounds == {-2, -1, 0, 1, 3}
RealsAndIntegers ==
    {Real(low, high) : low \in FloatBounds, high \in FloatBounds}
        \cup {Integer(low, high) : low \in IntegerBounds, high \in IntegerBounds}

InitVariable ==
    /\ NoRun
    /\ pc = "denormalize"
    /\ index = <<>>
    /\ call \in {c \in [var : RealsAndIntegers, x : Unit] : c.var.low < c.var.high}
    /\ value = None
    /\ threads = <<>>

\* var.denormalize(np.array([x]))
CallDenormalize ==
    /\ pc = "denormalize"
    /\ value' = [ret |-> VariableDenormalize(call.var, <<call.x>>)]
    /\ pc' = "done"
    /\ UNCHANGED <<run_state, index, call, threads>>

NextVariable == CallDenormalize

SpecVariable == InitVariable /\ [][NextVariable]_vars

(***************************************************************************)
(* optim/space.py: Categorical.denormalize of a vector of scores, one slot *)
(* for every category                                                      *)
(***************************************************************************)
MaxCategories == 3

CategoryNames == {"x", "y", "z"}
Categoricals ==
    UNION {{Categorical(c) : c \in [1..n -> CategoryNames]} : n \in 1..MaxCategories}

\* an argmax that keeps the last of the greatest scores
RECURSIVE argmax_last(_, _, _)
argmax_last(x, n, at) ==
    IF n > Len(x) THEN at
    ELSE argmax_last(x, n + 1, IF x[n] >= x[at] THEN n ELSE at)

\* np.argmax(x) of a non-empty vector, as a position from 1: the scan keeps
\* the position it has and moves only to a strictly greater score
RECURSIVE argmax(_, _, _)
argmax(x, n, at) ==
    IF n > Len(x) THEN at
    ELSE argmax(x, n + 1, IF x[n] > x[at] THEN n ELSE at)

\* Categorical.denormalize: self.categories[np.argmax(x)]
CategoricalDenormalize(var, x) == var.categories[argmax(x, 2, 1)]

InitCategorical ==
    /\ NoRun
    /\ pc = "denormalize"
    /\ index = <<>>
    /\ \E var \in Categoricals :
          call \in [var : {var}, x : [1..var.size -> Unit]]
    /\ value = None
    /\ threads = <<>>

\* var.denormalize(x) for a Categorical
CallCategoricalDenormalize ==
    /\ pc = "denormalize"
    /\ call.var.type = "Categorical"
    /\ value' = [ret |-> CategoricalDenormalize(call.var, call.x),
                 at |-> argmax(call.x, 2, 1)]
    /\ pc' = "done"
    /\ UNCHANGED <<run_state, index, call, threads>>

NextCategorical == CallCategoricalDenormalize

SpecCategorical == InitCategorical /\ [][NextCategorical]_vars

(***************************************************************************)
(* optim/bayesian_optimization.py: propose_location.  Every restart ends   *)
(* with the OptimizeResult of scipy's minimize: the point res.x, the score *)
(* res.fun, a number or NaN, and res.success, which is False when L-BFGS-B *)
(* stopped without converging.                                             *)
(***************************************************************************)
MaxRestarts == 3

Num(n) == [kind |-> "num", val |-> n]
NaN == [kind |-> "nan", val |-> 0]
Inf == [kind |-> "inf", val |-> 0]
Scores == {Num(0), Num(1), NaN}
\* an ndarray of slot values
Array(x) == [array |-> x]
OptimizeResults ==
    [x : {Array(<<0>>), Array(<<Grid>>)}, fun : Scores, success : BOOLEAN]

\* a comparison that also holds for equal numbers
LessOrEqual(a, b) ==
    /\ a.kind = "num"
    /\ b.kind = "inf" \/ (b.kind = "num" /\ a.val <= b.val)

\* a < b for floats: False when either side is NaN and for inf < inf
Less(a, b) ==
    /\ a.kind = "num"
    /\ b.kind = "inf" \/ (b.kind = "num" /\ a.val < b.val)

\* bayesian_optimization.py 26-27; k counts the restarts that are done and
\* at is the restart min_x was taken from
InitPropose ==
    /\ NoRun
    /\ pc = "propose_loop"
    /\ index = <<>>
    /\ \E n \in 0..MaxRestarts : call \in [restarts : [1..n -> OptimizeResults]]
    /\ value = [k |-> 0, min_val |-> Inf, min_x |-> None, at |-> 0]
    /\ threads = <<>>

\* bayesian_optimization.py 32-36: one restart
ProposeRestart ==
    /\ pc = "propose_loop"
    /\ value.k < Len(call.restarts)
    /\ LET res == call.restarts[value.k + 1]
       IN  value' = IF Less(res.fun, value.min_val)
                    THEN [k |-> value.k + 1, min_val |-> res.fun,
                          min_x |-> res.x, at |-> value.k + 1]
                    ELSE [value EXCEPT !.k = value.k + 1]
    /\ UNCHANGED <<pc, run_state, index, call, threads>>

\* bayesian_optimization.py 38: None has no reshape
ProposeReturn ==
    /\ pc = "propose_loop"
    /\ value.k = Len(call.restarts)
    /\ IF value.min_x = None
       THEN Raise("AttributeError")
       ELSE pc' = "done" /\ err' = err
    /\ UNCHANGED <<optimize_args, optimize_locals, experiments, best, returned,
                   bo_locals, eval_locals, dirs, files, history, index,
                   library_call>>

NextPropose == ProposeRestart \/ ProposeReturn

SpecPropose == InitPropose /\ [][NextPropose]_vars

(***************************************************************************)
(* optim/kernel.py: Matern.__call__ on two batches of points.  A batch is  *)
(* a sequence of rows, a row a sequence of slot values; scale is 1.0.  An  *)
(* entry of the matrix is kept as the formula applied to the distance of   *)
(* the two rows: [nu |-> n, distance |-> d] is the Matern function of      *)
(* nu = n / 2 at a distance whose square is d.                             *)
(***************************************************************************)
MaxNu == 5
MaxRows == 2

\* nu = 0.5, 1.0, ..., in halves
Nus == 1..MaxNu
Batches(columns) == UNION {[1..n -> [1..columns -> Unit]] : n \in 1..MaxRows}

\* cdist(x1, x2): the squared euclidean distance of every pair of rows, in
\* squared slot units
cdist(x1, x2) ==
    [a \in DOMAIN x1 |-> [b \in DOMAIN x2 |->
        SeqSum([c \in DOMAIN x1[a] |-> (x1[a][c] - x2[b][c]) * (x1[a][c] - x2[b][c])])]]

\* a Matern.__call__ without the else branch: the last formula for every
\* other nu
MaternCallAnyNu(nu, x1, x2) ==
    LET distance == cdist(x1, x2)
        formula == IF nu \in {1, 3} THEN nu ELSE 5
    IN  [matrix |-> [a \in DOMAIN x1 |-> [b \in DOMAIN x2 |->
            [nu |-> formula, distance |-> distance[a][b]]]]]

\* Matern.__call__ (kernel.py 109-124): the matrix, or the exception raised
MaternCall(nu, x1, x2) ==
    LET distance == cdist(x1, x2)
    IN  IF nu \in {1, 3, 5}
        THEN [matrix |-> [a \in DOMAIN x1 |-> [b \in DOMAIN x2 |->
                [nu |-> nu, distance |-> distance[a][b]]]]]
        ELSE [raise |-> "ValueError"]

InitMatern ==
    /\ NoRun
    /\ pc = "Matern"
    /\ index = <<>>
    /\ call \in [nu : Nus, x1 : Batches(1), x2 : Batches(1)]
    /\ value = None
    /\ threads = <<>>

\* Matern(nu=nu, scale=1.0)(x1, x2)
CallMatern ==
    /\ pc = "Matern"
    /\ LET r == MaternCall(call.nu, call.x1, call.x2)
       IN  IF "raise" \in DOMAIN r
           THEN Raise(r.raise) /\ value' = value
           ELSE pc' = "done" /\ err' = err /\ value' = r
    /\ UNCHANGED <<optimize_args, optimize_locals, experiments, best, returned,
                   bo_locals, eval_locals, dirs, files, history, index, call,
                   threads>>

NextMatern == CallMatern

SpecMatern == InitMatern /\ [][NextMatern]_vars

(***************************************************************************)
(* optim/gaussian_process.py: GaussianProcess.fit and predict with a       *)
(* kernel whose matrices have whole entries.  The arithmetic is exact: a   *)
(* matrix with fractional entries is a record [num, den] of a whole matrix *)
(* and the denominator all of its entries share.                           *)
(***************************************************************************)
MaxTrain == 2
\* the rows of the batch given to predict
PredictRows == 2

\* the kernels: the product of the two rows, and a peak at distance 0
KernelFns == {"dot", "peak"}
KernelEntry(kernel_fn, p, q) ==
    IF kernel_fn = "dot" THEN p[1] * q[1]
    ELSE Grid * Grid - (p[1] - q[1]) * (p[1] - q[1])
\* self.kernel(x1, x2)
KernelCall(kernel_fn, x1, x2) ==
    [a \in DOMAIN x1 |-> [b \in DOMAIN x2 |-> KernelEntry(kernel_fn, x1[a], x2[b])]]

Transpose(m) ==
    IF m = <<>> THEN <<>>
    ELSE [b \in DOMAIN m[1] |-> [a \in DOMAIN m |-> m[a][b]]]
\* a.dot(b) of two matrices, and of a matrix and a vector
Dot(a, b) ==
    [r \in DOMAIN a |-> [c \in DOMAIN b[1] |->
        SeqSum([n \in DOMAIN b |-> a[r][n] * b[n][c]])]]
DotVector(a, v) ==
    [r \in DOMAIN a |-> SeqSum([n \in DOMAIN v |-> a[r][n] * v[n]])]
Scale(c, m) == [a \in DOMAIN m |-> [b \in DOMAIN m[a] |-> c * m[a][b]]]
Minus(m, n) == [a \in DOMAIN m |-> [b \in DOMAIN m[a] |-> m[a][b] - n[a][b]]]

\* sigma_n added to every entry of the matrix
PlusNoiseEverywhere(m, sigma_n) ==
    [a \in DOMAIN m |-> [b \in DOMAIN m[a] |-> m[a][b] + sigma_n]]

\* m + sigma_n * np.eye(len(m))
PlusNoise(m, sigma_n) ==
    [a \in DOMAIN m |-> [b \in DOMAIN m[a] |->
        m[a][b] + (IF a = b THEN sigma_n ELSE 0)]]

\* the matrix without row r and column c
Minor(m, r, c) ==
    [a \in 1..(Len(m) - 1) |-> [b \in 1..(Len(m) - 1) |->
        m[IF a < r THEN a ELSE a + 1][IF b < c THEN b ELSE b + 1]]]
Sign(n) == IF n % 2 = 0 THEN 1 ELSE -1
RECURSIVE Determinant(_)
Determinant(m) ==
    IF Len(m) = 0 THEN 1
    ELSE IF Len(m) = 1 THEN m[1][1]
    ELSE SeqSum([c \in DOMAIN m |->
            Sign(1 + c) * m[1][c] * Determinant(Minor(m, 1, c))])
Adjugate(m) ==
    [a \in DOMAIN m |-> [b \in DOMAIN m |->
        Sign(a + b) * Determinant(Minor(m, b, a))]]
\* np.linalg.inv(m): the adjugate over the determinant; a singular matrix
\* raises LinAlgError
inv(m) ==
    IF Determinant(m) = 0 THEN [raise |-> "LinAlgError"]
    ELSE [num |-> Adjugate(m), den |-> Determinant(m)]

\* GaussianProcess(kernel, sigma_n), the training data and the batch to
\* predict; value holds the object's fields after fit, the kernel calls made
\* and what predict has returned
InitGaussianProcess ==
    /\ NoRun
    /\ pc = "fit"
    /\ index = <<>>
    /\ \E n \in 1..MaxTrain :
          call \in [kernel : KernelFns, sigma_n : {0, 1},
                    xs : [1..n -> [1..1 -> Unit]], ys : [1..n -> {0, 1}],
                    x : UNION {[1..m -> [1..1 -> Unit]] : m \in 1..PredictRows}]
    /\ value = [self |-> None, kernel_calls |-> <<>>, ret |-> None]
    /\ threads = <<>>

UnchangedByGaussianProcess ==
    UNCHANGED <<optimize_args, optimize_locals, experiments, best, returned,
                bo_locals, eval_locals, dirs, files, history, index, call,
                threads>>

\* a fit that adds sigma_n to every entry
FitPlusNoiseEverywhere(self, train_xs, train_ys) ==
    [xs |-> train_xs, ys |-> train_ys,
     k |-> PlusNoiseEverywhere(KernelCall(self.kernel, train_xs, train_xs),
                               self.sigma_n),
     k_inv |-> inv(PlusNoiseEverywhere(KernelCall(self.kernel, train_xs, train_xs),
                                       self.sigma_n))]

\* GaussianProcess.fit (gaussian_process.py 40-43): the fields it sets
GaussianProcessFit(self, train_xs, train_ys) ==
    [xs |-> train_xs, ys |-> train_ys,
     k |-> PlusNoise(KernelCall(self.kernel, train_xs, train_xs), self.sigma_n),
     k_inv |-> inv(PlusNoise(KernelCall(self.kernel, train_xs, train_xs),
                             self.sigma_n))]

\* gp.fit(xs, ys)
CallFit ==
    /\ pc = "fit"
    /\ LET fields == GaussianProcessFit(call, call.xs, call.ys)
           made == Append(value.kernel_calls, <<call.xs, call.xs>>)
       IN  IF "raise" \in DOMAIN fields.k_inv
           THEN /\ Raise(fields.k_inv.raise)
                /\ value' = [value EXCEPT
                      !.self = [xs |-> fields.xs, ys |-> fields.ys, k |-> fields.k],
                      !.kernel_calls = made]
           ELSE /\ pc' = "predict"
                /\ err' = err
                /\ value' = [value EXCEPT !.self = fields, !.kernel_calls = made]
    /\ UnchangedByGaussianProcess

\* GaussianProcess.predict (gaussian_process.py 57-63): mu_s and cov_s
GaussianProcessPredict(self, kernel_fn, sigma_n, x) ==
    LET k_s == KernelCall(kernel_fn, x, self.xs)
        k_ss == PlusNoise(KernelCall(kernel_fn, x, x), sigma_n)
        weights == Dot(k_s, self.k_inv.num)
    IN  [mu |-> [num |-> DotVector(weights, self.ys), den |-> self.k_inv.den],
         cov |-> [num |-> Minus(Scale(self.k_inv.den, k_ss),
                                Dot(weights, Transpose(k_s))),
                  den |-> self.k_inv.den]]

\* gp.predict(x)
CallPredict ==
    /\ pc = "predict"
    /\ value' = [value EXCEPT
          !.ret = GaussianProcessPredict(value.self, call.kernel, call.sigma_n,
                                         call.x),
          !.kernel_calls = value.kernel_calls
                               \o <<<<call.x, value.self.xs>>, <<call.x, call.x>>>>]
    /\ pc' = "done"
    /\ err' = err
    /\ UnchangedByGaussianProcess

NextGaussianProcess == CallFit \/ CallPredict

SpecGaussianProcess == InitGaussianProcess /\ [][NextGaussianProcess]_vars

(***************************************************************************)
(* server/watcher.py and serve.py: the observer thread reloads             *)
(* watch.experiment_data while request handlers read it.  Every group      *)
(* directory is on disk throughout; the data of a group is the number of   *)
(* the modification that wrote it.  An assignment to experiment_data or to *)
(* one of its keys, and a lookup in it, are single steps; no lock is taken *)
(* by either thread.                                                       *)
(***************************************************************************)
MaxEvents == 2
MaxRequests == 2

ExperimentGroups == {"a", "b"}
\* os.listdir(self.directory): the groups in any order
Listings ==
    {l \in [1..Cardinality(ExperimentGroups) -> ExperimentGroups] :
        \A m, n \in DOMAIN l : l[m] = l[n] => m = n}
\* load_experiment_group: the data of the group as it is on disk
GroupData(disk, group) == [params |-> disk[group], results |-> disk[group]]

\* Watcher.__init__ (watcher.py 13-17): the first load_experiments() ends
\* before the observer thread is started
InitWatcher ==
    /\ NoRun
    /\ pc = "serving"
    /\ index = <<>>
    /\ call = [directory |-> OUTPUT_DIR]
    /\ value = [disk |-> [g \in ExperimentGroups |-> 0],
                experiment_data |->
                    [g \in ExperimentGroups |-> [params |-> 0, results |-> 0]],
                events |-> 0,
                responses |-> <<>>]
    /\ threads = [observer |-> [pc |-> "idle", listing |-> <<>>]]

\* a file of a group is modified; on_modified (watcher.py 24-27) enters
\* load_experiments: self.experiment_data = {} and the listing (30-31)
OnModified ==
    /\ threads.observer.pc = "idle"
    /\ value.events < MaxEvents
    /\ \E g \in ExperimentGroups, l \in Listings :
          /\ value' = [value EXCEPT !.disk[g] = value.events + 1,
                                    !.events = value.events + 1,
                                    !.experiment_data = <<>>]
          /\ threads' = [threads EXCEPT !.observer = [pc |-> "loading", listing |-> l]]
    /\ UNCHANGED <<pc, run_state, index, call>>

\* one iteration of the loop of load_experiments (watcher.py 31-35)
LoadExperimentGroup ==
    /\ threads.observer.pc = "loading"
    /\ LET l == threads.observer.listing
           g == Head(l)
       IN  /\ value' = [value EXCEPT !.experiment_data =
                  [k \in DOMAIN value.experiment_data \cup {g} |->
                      IF k = g THEN GroupData(value.disk, g)
                      ELSE value.experiment_data[k]]]
           /\ threads' = [threads EXCEPT !.observer =
                  IF Tail(l) = <<>> THEN [pc |-> "idle", listing |-> <<>>]
                  ELSE [pc |-> "loading", listing |-> Tail(l)]]
    /\ UNCHANGED <<pc, run_state, index, call>>

\* GET /experiment_group/<group_name>/data (serve.py 33-38): the lookup
\* watch.experiment_data[group_name] raises KeyError when the key is absent
GetExperimentGroupData ==
    /\ Len(value.responses) < MaxRequests
    /\ \E group_name \in ExperimentGroups :
          value' = [value EXCEPT !.responses = Append(value.responses,
              IF group_name \in DOMAIN value.experiment_data
              THEN [group_name |-> group_name, status |-> "ok",
                    variables |-> value.experiment_data[group_name].params,
                    metrics |-> value.experiment_data[group_name].results,
                    loading |-> threads.observer.pc = "loading"]
              ELSE [group_name |-> group_name, status |-> "KeyError",
                    variables |-> -1, metrics |-> -1,
                    loading |-> threads.observer.pc = "loading"])]
    /\ UNCHANGED <<pc, run_state, index, call, threads>>

NextWatcher == OnModified \/ LoadExperimentGroup \/ GetExperimentGroupData

SpecWatcher == InitWatcher /\ [][NextWatcher]_vars

(***************************************************************************)
(* Properties of the run                                                   *)
(***************************************************************************)
CallsIn(phase) == Cardinality({n \in DOMAIN calls : calls[n].phase = phase})
InEval == ret # "none" /\ pc # "raised"
IsPrefix(s, t) == Len(s) <= Len(t) /\ SubSeq(t, 1, Len(s)) = s

\* C1: when bayesian_optimization returns and n_calls >= n_initial_points,
\* loss_fn has been called n_calls times, the first n_initial_points calls
\* in the random-sampling phase and the other n_calls - n_initial_points in
\* the GP-guided phase, and the returned list has n_calls pairs.
C1_EvaluationCount ==
    (bo_result # None /\ iterations >= random_starts) =>
        /\ Len(calls) = iterations
        /\ CallsIn("random") = random_starts
        /\ CallsIn("gp") = iterations - random_starts
        /\ \A n \in DOMAIN calls : calls[n].phase = "random" <=> n <= random_starts
        /\ Len(bo_result.list) = iterations

C1_Witness ==
    /\ bo_result # None
    /\ random_starts = 1
    /\ iterations = 3
    /\ CallsIn("gp") = 2

\* C2: a run with n_calls < n_initial_points is rejected at entry: the
\* objective is never evaluated in it.
C2_RejectedAtEntry ==
    iterations < random_starts => calls = <<>>

\* C3: the phases run in order, and every iteration of the loop fits the
\* model on all n_initial_points + i observations, takes y_opt as their
\* minimum, and proposes only when every evaluation made so far has been
\* recorded; at most one evaluation is in progress.
C3_PhaseOrder ==
    /\ \A m, n \in DOMAIN calls :
          (m < n /\ calls[m].phase = "gp") => calls[n].phase = "gp"
    /\ pc \in {"bo_y_opt", "bo_propose", "bo_call"} =>
          /\ model = [xs |-> xs_n, ys |-> ys]
          /\ Len(ys) = random_starts + i
          /\ Len(xs_n) = random_starts + i
    /\ pc \in {"bo_propose", "bo_call"} => y_opt = PyInt(Min(ys))
    /\ (pc = "bo_call" \/ (InEval /\ ret = "bo_record")) =>
          /\ Len(ys) = random_starts + i
          /\ Len(experiments) = IF pc = "bo_call" THEN Len(calls)
                                ELSE Len(calls) - 1
          /\ Len(ys) = Len(experiments)
    /\ Len(calls) = Len(experiments) + (IF ret # "none" THEN 1 ELSE 0)

C3_Witness ==
    /\ pc = "bo_call"
    /\ random_starts = 1
    /\ i = 1
    /\ Len(model.ys) = 2

\* C4: the observation sequences and the experiment list only grow at the
\* end; the k-th entry of each belongs to the k-th loss_fn call; at the head
\* of the loop and afterwards the four sequences have the same length.
C4_Entries ==
    /\ \A k \in DOMAIN experiments :
          /\ PyEq(experiments[k].params,
                  wrap_dict(ZipDict(keys, calls[k].x), DefaultSep))
          /\ k \in DOMAIN xs => xs[k] = calls[k].x
          /\ k \in DOMAIN ys => ys[k] = experiments[k].loss
    /\ \A k \in DOMAIN xs : xs[k] = SpaceDenormalize(space, xs_n[k])
    /\ pc \in {"bo_loop", "bo_fit", "bo_y_opt", "bo_propose", "bo_call",
               "select", "summary", "done"} =>
          /\ Len(xs_n) = Len(xs)
          /\ Len(xs) = Len(ys)
          /\ Len(ys) = Len(experiments)
C4_AppendOnly ==
    /\ []C4_Entries
    /\ [][/\ IsPrefix(xs_n, xs_n')
          /\ IsPrefix(xs, xs')
          /\ IsPrefix(ys, ys')
          /\ IsPrefix(experiments, experiments')]_vars

C4_Witness ==
    /\ pc = "bo_loop"
    /\ random_starts = 1
    /\ i = 2
    /\ Len(experiments) = 3
    /\ Len(ys) = 3

SubprocessMode == binary # None /\ function = None
Launches(dir) == Cardinality({n \in DOMAIN launch_log : launch_log[n] = dir})
Reverse(s) == [n \in DOMAIN s |-> s[Len(s) + 1 - n]]
BestPath == PathJoin(GroupDir, File("best.json"))

\* C5: in subprocess mode an evaluation that finds results.json in its
\* experiment directory launches nothing, leaves the files as they are and
\* takes the stored text as its result; no directory is launched twice and
\* the evaluations of one directory have the same result and loss.
C5_States ==
    SubprocessMode =>
        /\ \A n \in DOMAIN launch_log : Launches(launch_log[n]) = 1
        /\ \A a, b \in DOMAIN experiments :
              experiments[a].experiment_dir = experiments[b].experiment_dir =>
                  /\ experiments[a].results = experiments[b].results
                  /\ experiments[a].loss = experiments[b].loss
        /\ (pc \in {"eval_objective", "eval_append"}) =>
              /\ results_path \in DOMAIN files
              /\ results = deserialize_json(files[results_path])
C5_CachedResultReused ==
    /\ []C5_States
    /\ [][(SubprocessMode /\ pc = "eval_exists" /\ results_path \in DOMAIN files) =>
              /\ pc' = "eval_read"
              /\ popen' = NoProcess
              /\ launch_log' = launch_log
              /\ files' = files]_vars
    /\ [][(SubprocessMode /\ popen.state = "none"
             /\ pc \in {"eval_read", "eval_objective", "eval_append"}) =>
              /\ files' = files
              /\ launch_log' = launch_log]_vars

C5_Witness ==
    /\ SubprocessMode
    /\ pc = "eval_append"
    /\ popen.state = "none"
    /\ Launches(experiment_dir) = 1
    /\ \E k \in DOMAIN experiments :
          /\ experiments[k].experiment_dir = experiment_dir
          /\ experiments[k].results = results

\* C6: the experiment directory is the digest of the sampled mapping: two
\* evaluations have the same directory exactly when their sampled values
\* are equal, wherever they are in the run.
C6_DirectoryOfSample ==
    binary # None =>
        /\ \A a, b \in DOMAIN experiments :
              PyEq(experiments[a].params, experiments[b].params)
                  <=> experiments[a].experiment_dir = experiments[b].experiment_dir
        /\ \A a \in DOMAIN experiments :
              experiments[a].experiment_dir =
                  PathJoin(output_dir,
                           hash_json(Dict(unwrap_dict(experiments[a].params,
                                                      DefaultSep))))

C6_Witness ==
    /\ binary # None
    /\ Len(experiments) = 3
    /\ experiments[1].experiment_dir = experiments[2].experiment_dir
    /\ experiments[1].experiment_dir # experiments[3].experiment_dir
    /\ calls[3].phase = "gp"

\* C7: the hash does not depend on the insertion order of the keys: the
\* sampled mapping with its keys in the opposite order has the same hash.
C7_StableKeyOrder ==
    Len(sample_params) > 1 =>
        /\ PyEq(Dict(Reverse(sample_params)), Dict(sample_params))
        /\ hash_json(Dict(Reverse(sample_params))) = hash_json(Dict(sample_params))

\* C8: a failed evaluation ends the run: it has no loss and no record, there
\* is no best experiment and no summary, nothing happens afterwards; every
\* recorded loss is the objective of the recorded result, which in
\* subprocess mode is the content of the record's results.json.
C8_States ==
    /\ (pc = "raised" /\ ret # "none") =>
          /\ loss_val = None
          /\ Len(experiments) = Len(calls) - 1
          /\ Len(ys) <= Len(experiments)
          /\ Len(ys_list) <= Len(experiments)
          /\ best = None
          /\ returned = None
          /\ BestPath \notin DOMAIN files
    /\ \A k \in DOMAIN experiments :
          /\ PyInt(experiments[k].loss) = ObjectiveCall(objective, experiments[k].results)
          /\ SubprocessMode =>
                /\ experiments[k].results_path \in DOMAIN files
                /\ experiments[k].results =
                      deserialize_json(files[experiments[k].results_path])
C8_FailedEvaluationAborts ==
    /\ []C8_States
    /\ [][pc = "raised" => UNCHANGED vars]_vars

C8_Witness ==
    /\ pc = "raised"
    /\ ret = "bo_record"
    /\ err = "FileNotFoundError"
    /\ Len(calls) = 2
    /\ Len(experiments) = 1

\* C9: an experiment process that exits with a non-zero status gives the
\* evaluation no loss.
C9_NonZeroExitIsError ==
    (popen.state = "exited" /\ popen.returncode # 0) => loss_val = None

\* C10: an evaluation that launches a process writes params.json, launches,
\* sees the process exit and then reads results.json, in this order; the
\* process runs only while the evaluation waits for it, and the next
\* evaluation begins when the results of every launch are recorded.
C10_SubprocessProtocol ==
    /\ \/ IsPrefix(io_log, <<"write_params", "launch", "exit", "read_results">>)
       \/ IsPrefix(io_log, <<"write_params", "read_results">>)
    /\ popen.state = "running" => pc = "eval_wait"
    /\ popen.state # "none" =>
          /\ params_path \in DOMAIN files
          /\ files[params_path] = serialize_json(wraped_params)
    /\ (function = None /\ pc \in {"eval_objective", "eval_append"}) =>
          /\ io_log[Len(io_log)] = "read_results"
          /\ popen.state # "running"
    /\ pc = "eval_begin" =>
          /\ popen = NoProcess
          /\ \A n \in DOMAIN launch_log : \E k \in DOMAIN experiments :
                experiments[k].experiment_dir = launch_log[n]

C10_Witness ==
    /\ pc = "eval_objective"
    /\ io_log = <<"write_params", "launch", "exit", "read_results">>
    /\ Len(experiments) = 1

\* the text optimize.py 188-194 writes for a record
SummaryOf(exp) ==
    <<[experiment_dir |-> exp.experiment_dir,
       params |-> serialize_json(exp.params),
       results |-> serialize_json(exp.results)]>>
\* the position of the first record with the least loss
FirstMin(exps) ==
    CHOOSE k \in DOMAIN exps :
        /\ \A n \in DOMAIN exps : exps[k].loss <= exps[n].loss
        /\ \A n \in 1..(k - 1) : exps[n].loss > exps[k].loss

ConfigurationError ==
    /\ pc = "raised"
    /\ ret = "none"
    /\ \/ binary = None /\ function = None
       \/ kernel \notin KernelRegistry
       \/ acquisition_fn \notin AcquisitionRegistry

\* C12: when a configuration error is raised nothing has been evaluated or
\* launched and no directory or file has been created: the disk is as it
\* was before the run.
C12_NoPartialSideEffects ==
    ConfigurationError =>
        /\ calls = <<>>
        /\ launch_log = <<>>
        /\ \/ dirs = {} /\ files = <<>>
           \/ dirs = {GroupDir, EarlierDir(params)} /\ files = EarlierFiles(params)

\* a callable leaf somewhere in the tree
RECURSIVE HasCallable(_)
HasCallable(node) ==
    IF IsDict(node)
    THEN \E n \in DOMAIN node.items : HasCallable(node.items[n].v)
    ELSE IsCallable(node)

\* C13: the tree handed to the function, or about to be written to
\* params.json, holds no callable leaf at any depth.
C13_ProvidersResolved ==
    pc \in {"eval_function", "eval_write"} => ~HasCallable(wraped_params)

\* the number of calls on the instance id among the first n calls
CallsOn(id, n) == Cardinality({m \in 1..n : value[m].self = id})

\* C14: the k-th call on an instance with pool size count returns
\* (k - 1) mod count, whatever calls are made on other instances in between;
\* the counter of an instance that has never been called is -1.
C14_RoundRobin ==
    /\ \A n \in DOMAIN value : \A p \in Pool :
          value[n].self = p.id =>
              /\ value[n].ret = (CallsOn(p.id, n) - 1) % p.count
              /\ value[n].ret \in 0..(p.count - 1)
    /\ \A p \in Pool :
          index[p.id] = IF CallsOn(p.id, Len(value)) = 0 THEN -1
                        ELSE (CallsOn(p.id, Len(value)) - 1) % p.count

C14_Witness ==
    /\ Len(value) = 6
    /\ [n \in 1..6 |-> value[n].self] = <<1, 2, 1, 1, 2, 1>>
    /\ [n \in 1..6 |-> value[n].ret] = <<0, 0, 1, 0, 1, 1>>

\* C15: calls made concurrently on one instance behave as calls made one
\* after the other: when no call is in progress the counter has counted
\* every call, and calls that return within count of each other have
\* different indices.
C15_SerializedCounter ==
    (\A t \in Threads : threads[t].pc = "idle") =>
        /\ index[Shared.id] = IF value = <<>> THEN -1
                              ELSE (Len(value) - 1) % Shared.count
        /\ \A a, b \in DOMAIN value :
              (a < b /\ b - a < Shared.count) => value[a].ret # value[b].ret

\* C16: wrap_dict(unwrap_dict(d, sep), sep) is equal to d, for every
\* nested mapping d whose keys hold no separator and for every sep.
C16_RoundTrip ==
    pc = "done" => PyEq(value.dic, call.dic)

\* C17: the merge of the flattened base with the sample has the keys of
\* both, the sampled value at a sampled key and the base value elsewhere;
\* the tree the evaluation builds holds exactly these values at their dotted
\* paths; the flattened base is the same at every evaluation.
C17_MergedParams ==
    /\ unwraped_params \in {<<>>, unwrap_dict(params, DefaultSep)}
    /\ ret # "none" => unwraped_params = unwrap_dict(params, DefaultSep)
    /\ pc = "eval_resolve" =>
          LET m == merge_dicts(unwraped_params, sample_params)
          IN  /\ DictKeys(m) = DictKeys(unwraped_params) \cup DictKeys(sample_params)
              /\ \A key \in DictKeys(m) :
                    /\ DictGet(m, key) =
                          IF DictHas(sample_params, key)
                          THEN DictGet(sample_params, key)
                          ELSE DictGet(unwraped_params, key)
                    /\ lookup_flat(wraped_params, key) = DictGet(m, key)
              /\ PyEq(Dict(unwrap_dict(wraped_params, DefaultSep)), Dict(m))

C17_Witness ==
    /\ pc = "eval_resolve"
    /\ Len(calls) = 2
    /\ DictGet(sample_params, KeyNet \o <<".">> \o KeyDepth) = PyInt(2)
    /\ PyEq(DictGet(wraped_params.items, KeyNet),
            Dict(<<Entry(KeyDepth, PyInt(2)), Entry(KeyWidth, PyInt(8))>>))
    /\ DictGet(unwraped_params, KeyNet \o <<".">> \o KeyDepth) = integer(1, 2)

\* the metric at the objective's path in the k-th result tree
MetricOf(k) == lookup_flat(call.results[k], call.objective.name).val
Maximizing == call.objective \in {maximize(KeyLoss), maximize(KeyValLoss)}

\* C18: the loss of a record is the metric at the dotted path, negated with
\* maximize; the best record is the first with the greatest metric under
\* maximize and the first with the least metric under minimize.
C18_Direction ==
    /\ \A k \in DOMAIN value.experiments :
          value.experiments[k].loss =
              IF Maximizing THEN 0 - MetricOf(k) ELSE MetricOf(k)
    /\ pc = "done" =>
          \E k \in DOMAIN call.results :
              /\ value.best = value.experiments[k]
              /\ value.best.results = call.results[k]
              /\ \A n \in DOMAIN call.results :
                    IF Maximizing
                    THEN /\ MetricOf(n) <= MetricOf(k)
                         /\ n < k => MetricOf(n) < MetricOf(k)
                    ELSE /\ MetricOf(n) >= MetricOf(k)
                         /\ n < k => MetricOf(n) > MetricOf(k)

C18_Witness ==
    /\ pc = "done"
    /\ call.objective = maximize(KeyValLoss)
    /\ Len(call.results) = 3
    /\ [k \in 1..3 |-> MetricOf(k)] = <<-1, 1, 1>>
    /\ call.results[2] # call.results[3]
    /\ value.best = value.experiments[2]
    /\ value.best.loss = -1

\* the number of Real and Integer variables, and the categories of the
\* Categorical ones
NumScalars(vs) ==
    Cardinality({n \in DOMAIN vs : vs[n].type \in {"Real", "Integer"}})
NumCategories(vs) ==
    SeqSum([n \in DOMAIN vs |->
               IF vs[n].type = "Categorical" THEN Len(vs[n].categories) ELSE 0])

\* C19: the slot count of a Space is the number of its Real and Integer
\* variables plus the category counts of its Categorical ones, and the
\* slices of the variables, in declaration order, follow one another from 0
\* to the slot count, each as long as its variable's size: every slot is in
\* exactly one slice.
C19_SlicePartition ==
    pc = "done" =>
        /\ value.size = NumScalars(call.vars) + NumCategories(call.vars)
        /\ value.n = Len(call.vars)
        /\ Len(value.inds) = Len(call.vars)
        /\ \A n \in DOMAIN value.inds :
              /\ value.inds[n].start = IF n = 1 THEN 0 ELSE value.inds[n - 1].stop
              /\ value.inds[n].stop - value.inds[n].start = call.vars[n].size
        /\ call.vars # <<>> => value.inds[Len(value.inds)].stop = value.size
        /\ \A slot \in 0..(value.size - 1) :
              Cardinality({n \in DOMAIN value.inds :
                  value.inds[n].start <= slot /\ slot < value.inds[n].stop}) = 1

C19_Witness ==
    /\ pc = "done"
    /\ call.vars = <<Categorical(<<"x", "y", "z">>), Real(0, 1),
                     Categorical(<<"x", "y">>)>>
    /\ value.size = 6
    /\ value.inds = <<[start |-> 0, stop |-> 3], [start |-> 3, stop |-> 4],
                      [start |-> 4, stop |-> 6]>>

\* C20: a Real or Integer variable with low < high denormalizes the slot
\* value 0.0 to low, the slot value 1.0 to high, and every slot value of
\* [0, 1] to a value of [low, high].
C20_DenormalizeBounds ==
    pc = "done" =>
        /\ call.x = 0 => value.ret = call.var.low
        /\ call.x = Grid => value.ret = call.var.high
        /\ call.var.low <= value.ret
        /\ value.ret <= call.var.high

\* the positions of x that hold its greatest score
MaxPositions(x) == {n \in DOMAIN x : \A m \in DOMAIN x : x[m] <= x[n]}

\* C21: Categorical.denormalize returns the category at the lowest position
\* among those that hold the greatest score; for a vector with 1.0 in one
\* slot and 0.0 in the others this is the category of that slot.
C21_FirstArgmax ==
    pc = "done" =>
        /\ value.at \in MaxPositions(call.x)
        /\ \A n \in MaxPositions(call.x) : value.at <= n
        /\ value.ret = call.var.categories[value.at]
        /\ \A n \in DOMAIN call.x :
              call.x = [m \in DOMAIN call.x |-> IF m = n THEN Grid ELSE 0] =>
                  value.ret = call.var.categories[n]

C21_Witness ==
    /\ pc = "done"
    /\ call.var = Categorical(<<"x", "y", "z">>)
    /\ call.x = <<0, Grid, Grid>>
    /\ value.ret = "y"

\* C22: propose_location returns a point only from a restart whose local
\* optimization converged; when no restart converged it raises.
C22_FailurePropagates ==
    /\ pc = "done" => call.restarts[value.at].success
    /\ (pc \in {"done", "raised"}
          /\ \A k \in DOMAIN call.restarts : ~call.restarts[k].success) =>
          pc = "raised"

\* the restarts whose score is a number, and those of them with the least
Scored == {k \in DOMAIN call.restarts : call.restarts[k].fun.kind = "num"}
LeastScored ==
    {k \in Scored :
        \A n \in Scored : call.restarts[k].fun.val <= call.restarts[n].fun.val}

\* C23: the point propose_location returns is the point of the restart with
\* the least score, and of the first of them when several restarts have the
\* least score.
C23_BestRestart ==
    pc = "done" =>
        /\ value.at \in LeastScored
        /\ \A k \in LeastScored : value.at <= k
        /\ value.min_x = call.restarts[value.at].x
        /\ value.min_val = call.restarts[value.at].fun

C23_Witness ==
    /\ pc = "done"
    /\ Len(call.restarts) = 3
    /\ [k \in 1..3 |-> call.restarts[k].fun] = <<Num(1), Num(0), Num(0)>>
    /\ call.restarts[2].x # call.restarts[3].x
    /\ value.min_x = call.restarts[2].x

\* C24: a Matern kernel with nu other than 0.5, 1.5 and 2.5 raises when it is
\* called and returns no matrix, whatever the batches; with nu 0.5, 1.5 or
\* 2.5 the call raises nothing and returns a matrix with a row for every row
\* of x1 and a column for every row of x2.
C24_MaternNu ==
    pc # "Matern" =>
        IF call.nu \in {1, 3, 5}
        THEN /\ pc = "done"
             /\ err = "none"
             /\ DOMAIN value.matrix = DOMAIN call.x1
             /\ \A a \in DOMAIN call.x1 :
                   /\ DOMAIN value.matrix[a] = DOMAIN call.x2
                   /\ \A b \in DOMAIN call.x2 : value.matrix[a][b].nu = call.nu
        ELSE /\ pc = "raised"
             /\ err = "ValueError"
             /\ value = None

C24_Witness ==
    /\ pc = "raised"
    /\ err = "ValueError"
    /\ call.nu = 2
    /\ call.x1 = <<<<0>>, <<Grid>>>>
    /\ call.x2 = <<<<0>>, <<Grid>>>>

\* C25: fit stores xs and ys as given, calls the kernel with (xs, xs), sets
\* k to the kernel's matrix with sigma_n added on the diagonal only and
\* k_inv to the inverse of k; predict(x) calls the kernel with (x, xs) and
\* (x, x), returns mu = K_s . k_inv . ys and
\* cov = (kernel(x, x) + sigma_n * I) - K_s . k_inv . K_s^T, and leaves xs,
\* ys, k and k_inv as fit set them.
C25_FitPredict ==
    /\ pc \in {"predict", "done"} =>
          LET self == value.self
              n == Len(call.xs)
          IN  /\ self.xs = call.xs
              /\ self.ys = call.ys
              /\ value.kernel_calls[1] = <<call.xs, call.xs>>
              /\ Len(self.k) = n
              /\ \A a, b \in 1..n :
                    /\ self.k[a][b] =
                          KernelEntry(call.kernel, call.xs[a], call.xs[b])
                              + (IF a = b THEN call.sigma_n ELSE 0)
                    /\ SeqSum([c \in 1..n |-> self.k[a][c] * self.k_inv.num[c][b]])
                          = (IF a = b THEN self.k_inv.den ELSE 0)
              /\ self.k_inv.den # 0
    /\ pc = "predict" => Len(value.kernel_calls) = 1
    /\ pc = "done" =>
          LET self == value.self
              n == Len(call.xs)
              k_s == [r \in DOMAIN call.x |-> [a \in 1..n |->
                         KernelEntry(call.kernel, call.x[r], call.xs[a])]]
              weight(r, b) == SeqSum([a \in 1..n |-> k_s[r][a] * self.k_inv.num[a][b]])
          IN  /\ value.kernel_calls = <<<<call.xs, call.xs>>, <<call.x, call.xs>>,
                                        <<call.x, call.x>>>>
              /\ value.ret.mu.den = self.k_inv.den
              /\ value.ret.cov.den = self.k_inv.den
              /\ \A r \in DOMAIN call.x :
                    /\ value.ret.mu.num[r] =
                          SeqSum([b \in 1..n |-> weight(r, b) * call.ys[b]])
                    /\ \A c \in DOMAIN call.x :
                          value.ret.cov.num[r][c] =
                              self.k_inv.den
                                  * (KernelEntry(call.kernel, call.x[r], call.x[c])
                                        + (IF r = c THEN call.sigma_n ELSE 0))
                              - SeqSum([b \in 1..n |-> weight(r, b) * k_s[c][b]])

C25_Witness ==
    /\ pc = "done"
    /\ call.kernel = "peak"
    /\ call.sigma_n = 1
    /\ call.xs = <<<<0>>, <<Grid>>>>
    /\ call.ys = <<1, 0>>
    /\ call.x = <<<<0>>, <<Grid>>>>
    /\ value.self.k = <<<<Grid * Grid + 1, 0>>, <<0, Grid * Grid + 1>>>>
    /\ value.ret.mu.num[1] * (Grid * Grid + 1) = Grid * Grid * value.ret.mu.den
    /\ value.ret.mu.num[2] = 0

\* C26: for an Integer variable with low < high every slot value below 1.0
\* denormalizes to an integer of [low, high - 1], and high is returned only
\* for the slot value 1.0.
C26_BelowHigh ==
    (pc = "done" /\ call.var.type = "Integer") =>
        /\ call.x < Grid =>
              /\ call.var.low <= value.ret
              /\ value.ret <= call.var.high - 1
        /\ value.ret = call.var.high => call.x = Grid

\* the directories of the recorded evaluations, those a process was launched
\* in, and the directory whose results.json was on disk before the run
Evaluated == {experiments[k].experiment_dir : k \in DOMAIN experiments}
Launched == {launch_log[n] : n \in DOMAIN launch_log}
StoredBefore ==
    IF /\ PathJoin(EarlierDir(params), File("results.json")) \in DOMAIN files
       /\ EarlierDir(params) \notin Launched
    THEN {EarlierDir(params)}
    ELSE {}

\* C27: in subprocess mode no directory is launched twice in a run; an
\* evaluation whose sampled values were evaluated before has the result
\* stored then; when the loop has ended the launches are one for every
\* directory evaluated that had no results.json before the run, and the
\* number of evaluations is n_calls.
C27_OneLaunchPerDirectory ==
    (SubprocessMode /\ pc # "optimize") =>
        /\ \A n \in DOMAIN launch_log : Launches(launch_log[n]) = 1
        /\ Evaluated \subseteq Launched \cup StoredBefore
        /\ \A a, b \in DOMAIN experiments :
              PyEq(experiments[a].params, experiments[b].params) =>
                  /\ experiments[a].experiment_dir = experiments[b].experiment_dir
                  /\ experiments[a].results = experiments[b].results
        /\ pc \in {"select", "summary", "done"} =>
              /\ Launched = Evaluated \ StoredBefore
              /\ Len(launch_log) = Cardinality(Evaluated \ StoredBefore)
              /\ Len(experiments) = Len(calls)
              /\ Len(calls) >= iterations
              /\ iterations >= random_starts => Len(calls) = iterations

C27_Witness ==
    /\ SubprocessMode
    /\ pc = "done"
    /\ iterations = 3
    /\ Len(experiments) = 3
    /\ experiments[1].experiment_dir = experiments[3].experiment_dir
    /\ experiments[1].experiment_dir # experiments[2].experiment_dir
    /\ StoredBefore = {}
    /\ Len(launch_log) = 2

\* C28: in a run with n_calls >= n_initial_points the model is fit, and the
\* minimum of ys taken, on at least one observation, and the best record is
\* selected from at least one record.
C28_NonEmptyObservations ==
    iterations >= random_starts =>
        /\ pc \in {"bo_fit", "bo_y_opt"} => (xs_n # <<>> /\ ys # <<>>)
        /\ pc = "select" => experiments # <<>>

\* C29: an evaluation that finds results.json in its directory, and goes on
\* to take the stored result, leaves the params.json of the directory as it
\* is, so that params.json stays the parameter tree of the evaluation that
\* produced results.json.
C29_CacheHitKeepsParams ==
    [][(/\ SubprocessMode
        /\ pc = "eval_write"
        /\ results_path \in DOMAIN files
        /\ params_path \in DOMAIN files
        /\ pc' = "eval_exists") =>
            /\ params_path \in DOMAIN files'
            /\ files'[params_path] = files[params_path]]_vars

\* C30: a request made while the observer reloads the experiments finds its
\* group, which is on disk before and after the reload, in experiment_data
\* with the data of the group: no request sees the mapping emptied or
\* partly filled.
C30_NoPartialReload ==
    \A n \in DOMAIN value.responses :
        /\ value.responses[n].status = "ok"
        /\ value.responses[n].variables \in 0..value.events
        /\ value.responses[n].metrics = value.responses[n].variables

====
